---- MODULE Spec2Model ----
(***************************************************************************)
(* State-machine model of the trace collection core of the SDK:            *)
(*   - UnifiedTraceCollector (vaquero/trace_collector_unified.py)           *)
(*   - LangGraphProcessor    (vaquero/processors/langgraph_processor.py)    *)
(*   - SynquiSDK.shutdown    (synqui/sdk.py)                                *)
(*   - ChatSession, ChatSessionManager (vaquero/chat_session.py)            *)
(*   - VaqueroLangGraphHandler (vaquero/langgraph.py)                       *)
(*                                                                         *)
(* Encoding of Python values:                                              *)
(*   None            -> the string NULL  (for string-valued fields)        *)
(*   key not in dict -> the string ABSENT                                  *)
(*   Optional number -> a tuple: << >> is None, <<n>> is the number n      *)
(*   dict (ordered)  -> a sequence of entries in insertion order           *)
(*   object identity -> the key of the object in a table of instances      *)
(***************************************************************************)
EXTENDS Integers, Sequences, FiniteSets, TLC

\* ------------------------------------------------------------------ bounds

\* Total number of spans the collector accepts in one behaviour.
MaxSpans == 3

\* Number of finalize_trace / shutdown calls in one behaviour.
MaxFinalize == 2

\* Number of spans added to the processor whose reconstruction is examined.
MaxGraphSpans == 3

\* The clock stops here.
MaxClock == 4

\* Messages recorded in one session.
MaxMessages == 1

\* Calls of one timeout callback for one session.
MaxNotify == 2

\* ------------------------------------------------------------ Python values

NULL == "None"
ABSENT == "<absent>"

\* bool(x) of a string-or-None value read with dict.get(key)
Truthy(x) == x \notin {NULL, ABSENT, ""}

\* dict.get(key): an absent key reads as None
Get(x) == IF x = ABSENT THEN NULL ELSE x

\* dict.get(key, default): only an absent key reads as the default
GetD(x, default) == IF x = ABSENT THEN default ELSE x

NoneNum == << >>
Num(n) == <<n>>
IsNone(x) == x = << >>
Val(x) == x[1]

\* A number-valued key that is not in the dict, and dict.get(key, default) of it
AbsentNum == <<0, 0>>
NumD(x, default) == IF x = AbsentNum THEN default ELSE Val(x)

RECURSIVE SeqSum(_)
SeqSum(q) == IF q = << >> THEN 0 ELSE Head(q) + SeqSum(Tail(q))

RECURSIVE Concat(_)
Concat(qq) == IF qq = << >> THEN << >> ELSE Head(qq) \o Concat(Tail(qq))

SetMin(S) == CHOOSE x \in S : \A y \in S : x <= y
SetMax(S) == CHOOSE x \in S : \A y \in S : x >= y

Range(q) == {q[i] : i \in 1..Len(q)}

\* Index of the first entry of the ordered dict d whose key field equals k; 0 if none.
IndexOf(d, k) ==
    IF \E i \in 1..Len(d) : d[i].key = k
    THEN SetMin({i \in 1..Len(d) : d[i].key = k})
    ELSE 0

HasKey(d, k) == IndexOf(d, k) # 0

\* --------------------------------------------------------------- the spans

TraceIds == {"t1", "t2"}

\* A span dictionary as the producers build it (sdk.py _send_trace, langgraph.py
\* _send_agent_span / handle_user_message), reduced to the keys the collector
\* and the processors read.
MkSpan(tid, name, ctype, fw, meta, sid, csid, oid, parent, itok, otok, cost, st, et) ==
    [trace_id |-> tid, agent_name |-> name, component_type |-> ctype,
     framework |-> fw, metadata |-> meta,
     session_id |-> sid, chat_session_id |-> csid,
     agent_orchestration_id |-> oid, parent_agent_id |-> parent,
     input_tokens |-> itok, output_tokens |-> otok, cost |-> cost,
     start_time |-> st, end_time |-> et]

\* str(metadata).lower() contains 'langgraph'
PlainMetadata == "{}"
LangGraphMetadata == "{'sdk': 'LangGraph'}"
MentionsLangGraph(meta) == meta = LangGraphMetadata

\* ------------------------------------------------------ LangGraphProcessor

\* LangGraphProcessor.__init__: empty agents dict, spans list, orchestrations dict
NewProcessor == [spans |-> << >>, agents |-> << >>, agent_orchestrations |-> << >>]

\* The level add_span gives a span from its component_type
SpanLevel(component_type) ==
    IF component_type = "agent" THEN 2
    ELSE IF component_type \in {"llm", "tool", "chain", "prompt"} THEN 3
    ELSE 2

\* The agent_data dictionary add_span builds for one span
AgentData(agent_name, component_type, spans) ==
    [key |-> agent_name, name |-> agent_name, level |-> SpanLevel(component_type),
     component_type |-> component_type, parent_agent_id |-> NULL, spans |-> spans]

\* LangGraphProcessor.add_span
LangGraphAddSpan(p, span_data) ==
    LET agent_name == GetD(span_data.agent_name, "")
        component_type == GetD(span_data.component_type, "agent")
        oid == Get(span_data.agent_orchestration_id)
        orchs1 ==
            IF Truthy(oid) /\ ~HasKey(p.agent_orchestrations, oid)
            THEN Append(p.agent_orchestrations,
                        [key |-> oid, id |-> oid,
                         session_id |-> Get(span_data.session_id),
                         chat_session_id |-> Get(span_data.chat_session_id),
                         agents |-> << >>,
                         start_time |-> span_data.start_time,
                         end_time |-> span_data.end_time])
            ELSE p.agent_orchestrations
        oi == IndexOf(orchs1, oid)
        ai == IndexOf(p.agents, agent_name)
    IN  IF Truthy(oid)
        THEN [spans |-> Append(p.spans, span_data),
              agents |-> p.agents,
              agent_orchestrations |->
                  [orchs1 EXCEPT ![oi].agents =
                      Append(@, AgentData(agent_name, component_type, <<span_data>>))]]
        ELSE [spans |-> Append(p.spans, span_data),
              agents |->
                  IF ai = 0
                  THEN Append(p.agents, AgentData(agent_name, component_type, <<span_data>>))
                  ELSE [p.agents EXCEPT ![ai].spans = Append(@, span_data)],
              agent_orchestrations |-> orchs1]

\* LangGraphProcessor.detect_framework raises AttributeError when agent_name is
\* present and None: None has no startswith
LangGraphDetectRaises(span_data) == span_data.agent_name = NULL

\* agent_name.startswith('langgraph:')
HasLangGraphPrefix(agent_name) == agent_name \in {"langgraph:a", "langgraph:b"}

\* LangGraphProcessor.detect_framework
LangGraphDetect(span_data) ==
    \/ HasLangGraphPrefix(GetD(span_data.agent_name, ""))
    \/ MentionsLangGraph(span_data.metadata)
    \/ Get(span_data.framework) = "langgraph"
    \/ Get(span_data.chat_session_id) # NULL

\* Mutant: the start time of the first span that has one, not the minimum
EarliestStartTime_First(spans) ==
    LET I == {j \in 1..Len(spans) : ~IsNone(spans[j].start_time)}
    IN  IF I = {} THEN NoneNum ELSE spans[SetMin(I)].start_time

\* _get_earliest_start_time: min over the truthy start times, None if there are none
EarliestStartTime(spans) ==
    LET S == {Val(spans[i].start_time) : i \in {j \in 1..Len(spans) : ~IsNone(spans[j].start_time)}}
    IN  IF S = {} THEN NoneNum ELSE Num(SetMin(S))

\* _get_latest_end_time: max over the truthy end times, None if there are none
LatestEndTime(spans) ==
    LET S == {Val(spans[i].end_time) : i \in {j \in 1..Len(spans) : ~IsNone(spans[j].end_time)}}
    IN  IF S = {} THEN NoneNum ELSE Num(SetMax(S))

\* Time stamps are counted in microseconds; a millisecond has
UsPerMs == 1000

\* int(x / UsPerMs): Python's int() truncates toward zero
TruncMs(us) == IF us >= 0 THEN us \div UsPerMs ELSE 0 - ((0 - us) \div UsPerMs)

\* _calculate_duration
CalculateDuration(spans) ==
    LET st == EarliestStartTime(spans)
        et == LatestEndTime(spans)
    IN  IF ~IsNone(st) /\ ~IsNone(et) THEN TruncMs(Val(et) - Val(st)) ELSE 0

\* The first loop of process_trace: session_id is overwritten by every span that
\* has one, until the first span with a chat_session_id ends the loop.
RECURSIVE ScanSession(_, _, _)
ScanSession(spans, i, sid) ==
    IF i > Len(spans) THEN [session_id |-> sid, chat_session_id |-> NULL]
    ELSE LET sid1 == IF Truthy(spans[i].session_id) THEN spans[i].session_id ELSE sid
         IN  IF Truthy(spans[i].chat_session_id)
             THEN [session_id |-> sid1, chat_session_id |-> spans[i].chat_session_id]
             ELSE ScanSession(spans, i + 1, sid1)

\* One entry of HierarchicalTrace.agents. A key the code does not set on a node
\* reads as None: NoneNum for numbers.
Node(name, level, component_type, parent, sid, csid, st, et, duration, tokens, cost, children) ==
    [name |-> name, level |-> level, framework |-> "langgraph",
     component_type |-> component_type, parent_agent_id |-> parent,
     session_id |-> sid, chat_session_id |-> csid,
     start_time |-> st, end_time |-> et, duration |-> duration, status |-> "completed",
     total_tokens |-> tokens, total_cost |-> cost, agents |-> children]

\* sum(span.get('input_tokens', 0) + span.get('output_tokens', 0) ...) and
\* sum(span.get('cost', 0) ...) raise TypeError on a None operand
SumsRaise(spans) ==
    \E i \in 1..Len(spans) :
        IsNone(spans[i].input_tokens) \/ IsNone(spans[i].output_tokens) \/ IsNone(spans[i].cost)

\* Mutant: only the input tokens are summed
TotalTokens_InputOnly(spans) ==
    SeqSum([i \in 1..Len(spans) |-> NumD(spans[i].input_tokens, 0)])

TotalTokens(spans) ==
    SeqSum([i \in 1..Len(spans) |->
               NumD(spans[i].input_tokens, 0) + NumD(spans[i].output_tokens, 0)])

TotalCost(spans) == SeqSum([i \in 1..Len(spans) |-> NumD(spans[i].cost, 0)])

\* chat_session_id[:8] and orchestration_id[:8]: the identifiers of the model are
\* shorter than 8 characters, so the slice is the identifier itself
Prefix8(id) == id

SessionNodeName(csid) == "chat_session_" \o Prefix8(csid)

\* agent_data.get('agent_orchestration_id', 'default') on an entry of self.agents:
\* add_span creates these entries without that key
GroupOf(agent_data) == "default"

OrchestrationName(orchestration_id) ==
    IF orchestration_id # "default"
    THEN "agent_orchestration_" \o Prefix8(orchestration_id)
    ELSE "agent_orchestration"

\* agent_groups: orchestration id -> {'agents': level-2 entries, 'components': the rest},
\* in the order the ids are first seen in self.agents
RECURSIVE GroupKeys(_, _)
GroupKeys(agents, seen) ==
    IF agents = << >> THEN seen
    ELSE LET g == GroupOf(Head(agents))
         IN  GroupKeys(Tail(agents), IF g \in Range(seen) THEN seen ELSE Append(seen, g))

GroupAgents(agents, g) == SelectSeq(agents, LAMBDA a : GroupOf(a) = g /\ a.level = 2)
GroupComponents(agents, g) == SelectSeq(agents, LAMBDA a : GroupOf(a) = g /\ a.level # 2)

\* The level-4 entry of one component
ComponentEntry(component_data, agent_name, sid, csid) ==
    Node(component_data.name, 4, component_data.component_type, agent_name, sid, csid,
         EarliestStartTime(component_data.spans), LatestEndTime(component_data.spans),
         Num(CalculateDuration(component_data.spans)), NoneNum, NoneNum, << >>)

\* The level-3 entry of one agent of a group, with the components whose
\* parent_agent_id is the agent's name
AgentEntry(agent_data, components, parent, sid, csid) ==
    LET mine == SelectSeq(components, LAMBDA c : c.parent_agent_id = agent_data.name)
    IN  Node(agent_data.name, 3, "agent", parent, sid, csid,
             EarliestStartTime(agent_data.spans), LatestEndTime(agent_data.spans),
             Num(CalculateDuration(agent_data.spans)),
             Num(TotalTokens(agent_data.spans)), Num(TotalCost(agent_data.spans)),
             [i \in 1..Len(mine) |-> ComponentEntry(mine[i], agent_data.name, sid, csid)])

\* Mutant: the agents of a group name the session node as their parent
OrchestrationEntry_ParentSession(agents, g, session_name, sid, csid) ==
    LET ga == GroupAgents(agents, g)
        gc == GroupComponents(agents, g)
        gspans == Concat([i \in 1..Len(ga) |-> ga[i].spans])
        name == OrchestrationName(g)
    IN  Node(name, 2, "agent_orchestration", session_name, sid, csid,
             EarliestStartTime(gspans), LatestEndTime(gspans), NoneNum, NoneNum, NoneNum,
             [i \in 1..Len(ga) |-> AgentEntry(ga[i], gc, session_name, sid, csid)])

\* The level-2 entry of one group
OrchestrationEntry(agents, g, session_name, sid, csid) ==
    LET ga == GroupAgents(agents, g)
        gc == GroupComponents(agents, g)
        gspans == Concat([i \in 1..Len(ga) |-> ga[i].spans])
        name == OrchestrationName(g)
    IN  Node(name, 2, "agent_orchestration", session_name, sid, csid,
             EarliestStartTime(gspans), LatestEndTime(gspans), NoneNum, NoneNum, NoneNum,
             [i \in 1..Len(ga) |-> AgentEntry(ga[i], gc, name, sid, csid)])

\* The flat level-1 entry of one agent when the trace has no chat session
StandaloneEntry(agent_data, sid) ==
    Node(agent_data.key, 1, "agent", NULL, sid, ABSENT,
         EarliestStartTime(agent_data.spans), LatestEndTime(agent_data.spans),
         Num(CalculateDuration(agent_data.spans)),
         Num(TotalTokens(agent_data.spans)), Num(TotalCost(agent_data.spans)), << >>)

\* process_trace raises where a sum meets a None operand: with a chat session only
\* the level-2 entries of self.agents are summed, without one all of them
LangGraphProcessTraceRaises(p) ==
    LET ss == ScanSession(p.spans, 1, NULL)
    IN  \E i \in 1..Len(p.agents) :
            /\ Truthy(ss.chat_session_id) => p.agents[i].level = 2
            /\ SumsRaise(p.agents[i].spans)

\* LangGraphProcessor.process_trace, where it does not raise
LangGraphProcessTrace(p, trace_id) ==
    LET ss == ScanSession(p.spans, 1, NULL)
        sid == ss.session_id
        csid == ss.chat_session_id
        keys == GroupKeys(p.agents, << >>)
        sname == SessionNodeName(csid)
        orchestration_entries ==
            [i \in 1..Len(keys) |-> OrchestrationEntry(p.agents, keys[i], sname, sid, csid)]
        session_orchestration ==
            Node(sname, 1, "session_orchestration", NULL, sid, csid,
                 EarliestStartTime(p.spans), LatestEndTime(p.spans),
                 NoneNum, NoneNum, NoneNum, orchestration_entries)
        agents ==
            IF Truthy(csid)
            THEN <<session_orchestration>> \o orchestration_entries
            ELSE [i \in 1..Len(p.agents) |-> StandaloneEntry(p.agents[i], sid)]
    IN  [trace_id |-> trace_id,
         name |-> IF Truthy(csid) THEN "LangGraph Session" ELSE "LangGraph Workflow",
         agents |-> agents,
         dependencies |-> << >>,
         metadata |-> [framework |-> "langgraph", session_id |-> sid,
                       chat_session_id |-> csid,
                       agent_count |-> Len(agents),
                       orchestration_count |-> Len(p.agent_orchestrations)]]

\* ------------------------------------------------------ LangChainProcessor
\* The processors package (LangChainProcessor, FrameworkProcessor, HierarchicalTrace)
\* is not among the source files; this processor follows the description of the
\* framework processor: a buffer of spans, a map agent_name -> spans, a map
\* agent_orchestration_id -> bucket, and the four-level reconstruction.

ComponentTypes == {"llm", "tool", "chain", "prompt"}

BucketOf(span_data) ==
    IF Truthy(span_data.agent_orchestration_id) THEN span_data.agent_orchestration_id
    ELSE "default"

\* Append span_data to the entry of key k of the ordered dict d, creating the entry
AddToEntry(d, k, span_data) ==
    IF HasKey(d, k)
    THEN [d EXCEPT ![IndexOf(d, k)].spans = Append(@, span_data)]
    ELSE Append(d, [key |-> k, spans |-> <<span_data>>])

LangChainAddSpan(p, span_data) ==
    [spans |-> Append(p.spans, span_data),
     agents |-> AddToEntry(p.agents, GetD(span_data.agent_name, ""), span_data),
     agent_orchestrations |-> AddToEntry(p.agent_orchestrations, BucketOf(span_data), span_data)]

LangChainDetect(span_data) ==
    \/ GetD(span_data.agent_name, "") \in {"langchain:a", "langchain:b"}
    \/ Get(span_data.framework) = "langchain"

\* First truthy value of a field over the buffered spans, None if there is none
RECURSIVE FirstSessionId(_)
FirstSessionId(spans) ==
    IF spans = << >> THEN NULL
    ELSE IF Truthy(Head(spans).session_id) THEN Head(spans).session_id
    ELSE FirstSessionId(Tail(spans))

RECURSIVE FirstChatSessionId(_)
FirstChatSessionId(spans) ==
    IF spans = << >> THEN NULL
    ELSE IF Truthy(Head(spans).chat_session_id) THEN Head(spans).chat_session_id
    ELSE FirstChatSessionId(Tail(spans))

\* Missing numbers count as zero
NumOr0(x) == IF IsNone(x) THEN 0 ELSE Val(x)

ChainNode(name, level, component_type, parent, sid, csid, spans, children) ==
    [Node(name, level, component_type, parent, sid, csid,
          EarliestStartTime(spans), LatestEndTime(spans), Num(CalculateDuration(spans)),
          Num(SeqSum([i \in 1..Len(spans) |->
                        NumOr0(spans[i].input_tokens) + NumOr0(spans[i].output_tokens)])),
          Num(SeqSum([i \in 1..Len(spans) |-> NumOr0(spans[i].cost)])),
          children)
     EXCEPT !.framework = "langchain"]

\* Distinct agent names of a span list, in order of first appearance
RECURSIVE AgentNames(_, _)
AgentNames(spans, seen) ==
    IF spans = << >> THEN seen
    ELSE LET n == GetD(Head(spans).agent_name, "")
         IN  AgentNames(Tail(spans), IF n \in Range(seen) THEN seen ELSE Append(seen, n))

IsComponentSpan(s, agent_names) ==
    /\ Get(s.component_type) \in ComponentTypes
    /\ Get(s.parent_agent_id) \in Range(agent_names)

\* One bucket: the level-2 node, its level-3 agents and their level-4 components
ChainBucket(bspans, bucket, session_name, sid, csid) ==
    LET plain == SelectSeq(bspans, LAMBDA s : Get(s.component_type) \notin ComponentTypes)
        names == AgentNames(plain, << >>)
        bname == OrchestrationName(bucket)
        comps(n) == SelectSeq(bspans, LAMBDA s : IsComponentSpan(s, names)
                                                  /\ s.parent_agent_id = n)
        agent(n) ==
            ChainNode(n, 3, "agent", bname, sid, csid,
                      SelectSeq(plain, LAMBDA s : GetD(s.agent_name, "") = n),
                      [i \in 1..Len(comps(n)) |->
                          ChainNode(GetD(comps(n)[i].agent_name, ""), 4,
                                    comps(n)[i].component_type, n, sid, csid,
                                    <<comps(n)[i]>>, << >>)])
    IN  ChainNode(bname, 2, "agent_orchestration", session_name, sid, csid, bspans,
                  [i \in 1..Len(names) |-> agent(names[i])])

LangChainProcessTrace(p, trace_id) ==
    LET sid == FirstSessionId(p.spans)
        csid == FirstChatSessionId(p.spans)
        session == Truthy(sid) \/ Truthy(csid)
        sname == "session"
        buckets == [i \in 1..Len(p.agent_orchestrations) |->
                       ChainBucket(p.agent_orchestrations[i].spans,
                                   p.agent_orchestrations[i].key, sname, sid, csid)]
        agents ==
            IF session
            THEN <<ChainNode(sname, 1, "session_orchestration", NULL, sid, csid,
                             p.spans, buckets)>> \o buckets
            ELSE [i \in 1..Len(p.agents) |->
                     ChainNode(p.agents[i].key, 1, "agent", NULL, sid, csid,
                               p.agents[i].spans, << >>)]
    IN  [trace_id |-> trace_id,
         name |-> "LangChain Workflow",
         agents |-> agents,
         dependencies |-> << >>,
         metadata |-> [framework |-> "langchain", session_id |-> sid,
                       chat_session_id |-> csid,
                       agent_count |-> Len(agents),
                       orchestration_count |-> IF session THEN Len(buckets) ELSE 0]]

\* Reconstruction never raises on missing optional fields
LangChainProcessTraceRaises(p) == FALSE

\* --------------------------------------------------- UnifiedTraceCollector

VARIABLES
    processors,        \* self.processors: framework name -> the processor instance
    trace_processors,  \* self.trace_processors: trace_id -> processor (the name of the instance)
    cached_user_id,    \* self._cached_user_id
    cached_project_id, \* self._cached_project_id
    last,              \* what the last call did: its arguments, result and dispatches
    since,             \* history: per trace_id, the spans accepted since its last finalize
    finalized,         \* history: per trace_id, how often a finalize found it registered
    nfinal,            \* history: number of finalize_trace / shutdown calls so far
    threads,           \* the calls in progress on concurrent threads, one per thread
    sdk,               \* SynquiSDK: its collector reference and the shutdown in progress
    now,               \* datetime.utcnow(), in clock units
    sessions,          \* ChatSessionManager.sessions: the tracked session ids, in order
    objects,           \* the ChatSession objects, by session id
    notified,          \* history: calls of each timeout callback, per session
    lastcall,          \* the last call of the session API and what it returned
    adders,            \* the add_message calls in progress on concurrent threads
    handler            \* the VaqueroLangGraphHandler instance and the spans it has emitted

Frameworks == {"langchain", "langgraph"}

NoProcessor == "no processor"

\* config.project_id and the user id the whoami endpoint answers
ConfigProjectId == "p1"
WhoamiUserId == "u1"

\* What the backend answers to one finalize: GET /auth/whoami and POST /traces/batch
WhoamiOutcomes == {"200", "200 without user_id", "error"}
PostOutcomes == {"2xx", "non-2xx", "exception"}
Envs == [whoami : WhoamiOutcomes, post : PostOutcomes]

\* The answers the collector specification draws from
CollectorEnvs ==
    {[whoami |-> "200", post |-> "2xx"],
     [whoami |-> "error", post |-> "non-2xx"],
     [whoami |-> "200", post |-> "exception"]}

\* self.trace_processors[trace_id]
ProcessorOf(tp, trace_id) == tp[IndexOf(tp, trace_id)].proc

\* del self.trace_processors[trace_id]
DictDel(tp, trace_id) == SelectSeq(tp, LAMBDA e : e.key # trace_id)

\* list(self.trace_processors.keys())
DictKeys(tp) == [i \in 1..Len(tp) |-> tp[i].key]

\* Mutant: only a None trace_id is refused, an empty one is let through
SpanHasTraceId_NotNone(span_data) == Get(span_data.trace_id) # NULL

\* process_span: "if not trace_id: return"
SpanHasTraceId(span_data) == Truthy(Get(span_data.trace_id))

\* _detect_framework
DetectFramework(span_data) ==
    IF LangGraphDetect(span_data) THEN "langgraph"
    ELSE IF LangChainDetect(span_data) THEN "langchain"
    ELSE "langchain"

\* process_span: "if trace_id not in self.trace_processors" runs the detection
NeedsDetection(tp, trace_id) == ~HasKey(tp, trace_id)

\* Mutant: the framework is detected again for every span
RoutedProcessor_Redetect(tp, span_data) == DetectFramework(span_data)

\* process_span: the processor the span is added to
RoutedProcessor(tp, span_data) ==
    IF NeedsDetection(tp, span_data.trace_id)
    THEN DetectFramework(span_data)
    ELSE ProcessorOf(tp, span_data.trace_id)

\* processor.add_span of the instance named fw
AddSpan(fw, p, span_data) ==
    IF fw = "langgraph" THEN LangGraphAddSpan(p, span_data)
    ELSE LangChainAddSpan(p, span_data)

\* processor.process_trace of the instance named fw
ProcessTraceRaises(fw, p) ==
    IF fw = "langgraph" THEN LangGraphProcessTraceRaises(p)
    ELSE LangChainProcessTraceRaises(p)

ProcessTrace(fw, p, trace_id) ==
    IF fw = "langgraph" THEN LangGraphProcessTrace(p, trace_id)
    ELSE LangChainProcessTrace(p, trace_id)

\* A processor of kind fw that was given exactly these spans
RECURSIVE Replay(_, _, _)
Replay(fw, p, spans) ==
    IF spans = << >> THEN p
    ELSE Replay(fw, AddSpan(fw, p, Head(spans)), Tail(spans))

NoTrace ==
    [trace_id |-> NULL, name |-> NULL, agents |-> << >>, dependencies |-> << >>,
     metadata |-> [framework |-> NULL, session_id |-> NULL, chat_session_id |-> NULL,
                   agent_count |-> 0, orchestration_count |-> 0]]

\* _send_to_database: the agent entry of the batch for one element of
\* hierarchical_trace.agents. The nodes carry neither 'duration_ms' nor 'cost',
\* neither 'metadata' nor 'tags'.
BatchAgent(trace_id, agent) ==
    [trace_id |-> trace_id,
     name |-> agent.name,
     type |-> agent.component_type,
     start_time |-> agent.start_time,
     end_time |-> agent.end_time,
     duration_ms |-> 0,
     total_tokens |-> NumOr0(agent.total_tokens),
     cost |-> 0,
     status |-> agent.status,
     parent_agent_id |-> agent.parent_agent_id,
     level |-> agent.level,
     framework |-> agent.framework,
     component_type |-> agent.component_type,
     chat_session_id |->
        IF Truthy(agent.session_id) THEN agent.session_id
        ELSE Get(agent.chat_session_id)]

\* _send_to_database: the batch for one hierarchical trace. A start or end time of
\* None stands for the current time the code puts in its place.
BatchOf(ht) ==
    LET st == EarliestStartTime(ht.agents)
        et == LatestEndTime(ht.agents)
    IN  [traces |-> <<[trace_id |-> ht.trace_id,
                       name |-> ht.name,
                       status |-> "completed",
                       start_time |-> st,
                       end_time |-> et,
                       duration_ms |-> IF ~IsNone(st) /\ ~IsNone(et)
                                       THEN TruncMs(Val(et) - Val(st)) ELSE 0,
                       session_id |-> NULL,
                       chat_session_id |-> ht.metadata.chat_session_id]>>,
         agents |-> [i \in 1..Len(ht.agents) |-> BatchAgent(ht.trace_id, ht.agents[i])]]

\* _get_user_id: the cache after the call, and whether whoami was called
GetUserId(cu, cp, env) ==
    IF cu # NULL THEN [user_id |-> cu, cu |-> cu, cp |-> cp, whoami |-> FALSE]
    ELSE IF env.whoami = "200"
         THEN [user_id |-> WhoamiUserId, cu |-> WhoamiUserId, cp |-> ConfigProjectId,
               whoami |-> TRUE]
    ELSE IF env.whoami = "200 without user_id"
         THEN [user_id |-> NULL, cu |-> NULL, cp |-> ConfigProjectId, whoami |-> TRUE]
    ELSE [user_id |-> NULL, cu |-> cu, cp |-> cp, whoami |-> TRUE]

\* Mutant: a batch that was not accepted is posted a second time
PostAttempts_Retry(result) == IF result = "2xx" THEN 1 ELSE 2

\* _send_batch_to_api: the requests.post calls made for one batch. There is one
\* call, outside any loop; its status code is logged and an exception is caught.
PostAttempts(result) == 1

\* What one finalize_trace call did
\* (the batch it posted is BatchOf(trace))
FinRec(tid, found, fw, raised, ht, posts, headers, result, whoami) ==
    [tid |-> tid, found |-> found, fw |-> fw, recon_raised |-> raised, trace |-> ht,
     posts |-> posts, headers |-> headers, post_result |-> result,
     whoami_called |-> whoami]

NoHeaders == [user_id |-> NULL, project_id |-> NULL]

\* Mutant: an unknown trace_id falls back to the default processor
FinalizeTarget_Default(tp, trace_id) ==
    IF HasKey(tp, trace_id) THEN ProcessorOf(tp, trace_id) ELSE "langchain"

\* finalize_trace: the processor registered for trace_id, if any
FinalizeTarget(tp, trace_id) ==
    IF HasKey(tp, trace_id) THEN ProcessorOf(tp, trace_id) ELSE NoProcessor

\* Mutant: the entry is deleted on the success path only
FinalizeCleanup_OnSuccess(tp, trace_id, failed) ==
    IF failed THEN tp ELSE DictDel(tp, trace_id)

\* finalize_trace: the "finally" clause
FinalizeCleanup(tp, trace_id, failed) ==
    IF HasKey(tp, trace_id) THEN DictDel(tp, trace_id) ELSE tp

\* finalize_trace as one call. st holds the collector fields the call may change
\* and the log of the calls made so far.
FinalizeCall(procs, st, trace_id, env) ==
    LET fw == FinalizeTarget(st.tp, trace_id)
    IN  IF fw = NoProcessor
        THEN [st EXCEPT !.fin = Append(@, FinRec(trace_id, FALSE, NoProcessor, FALSE,
                                                NoTrace, 0, NoHeaders, "none", FALSE))]
        ELSE IF ProcessTraceRaises(fw, procs[fw])
        THEN [st EXCEPT !.tp = FinalizeCleanup(st.tp, trace_id, TRUE),
                        !.fin = Append(@, FinRec(trace_id, TRUE, fw, TRUE,
                                                NoTrace, 0, NoHeaders, "none", FALSE))]
        ELSE LET ht == ProcessTrace(fw, procs[fw], trace_id)
                 id == GetUserId(st.cu, st.cp, env)
             IN  [tp |-> FinalizeCleanup(st.tp, trace_id, FALSE),
                  cu |-> id.cu,
                  cp |-> id.cp,
                  fin |-> Append(st.fin,
                                 FinRec(trace_id, TRUE, fw, FALSE, ht, PostAttempts(env.post),
                                        [user_id |-> id.user_id, project_id |-> id.cp],
                                        env.post, id.whoami))]

\* end_trace as one call: the body of finalize_trace inside one try block, the
\* deletion being its last statement, so it is skipped when process_trace raises
EndCall(procs, st, trace_id, env) ==
    LET fw == FinalizeTarget(st.tp, trace_id)
    IN  IF fw # NoProcessor /\ ProcessTraceRaises(fw, procs[fw])
        THEN [st EXCEPT !.fin = Append(@, FinRec(trace_id, TRUE, fw, TRUE,
                                                NoTrace, 0, NoHeaders, "none", FALSE))]
        ELSE FinalizeCall(procs, st, trace_id, env)

\* Mutant: the pending traces are read from self._traces, which is always empty
PendingTraces_Legacy(tp) == << >>

\* shutdown: the list of pending traces
PendingTraces(tp) == DictKeys(tp)

\* shutdown: finalize_trace for each pending trace in turn
RECURSIVE Drain(_, _, _, _)
Drain(procs, st, pending, envs) ==
    IF pending = << >> THEN st
    ELSE Drain(procs, FinalizeCall(procs, st, Head(pending), envs[Head(pending)]),
               Tail(pending), envs)

NoSpan == MkSpan(ABSENT, ABSENT, ABSENT, ABSENT, PlainMetadata, NULL, NULL, NULL, NULL,
                 NoneNum, NoneNum, NoneNum, NoneNum, NoneNum)

\* own: the spans accepted for tid between its previous finalize and this call
Last(op, span_data, tid, raised, detected, own, fin) ==
    [op |-> op, span |-> span_data, tid |-> tid, raised |-> raised,
     detected |-> detected, own |-> own, fin |-> fin]

\* -------------------------------------------------- ChatSession (objects)
\* Time is counted in clock units; timeout_minutes and max_duration_minutes are
\* given in the same unit.

\* The ids uuid4 hands out, in the order it hands them out
SessionIdSeq == <<"s1", "s2">>
SessionIds == Range(SessionIdSeq)
\* The callables registered as timeout callbacks: cb1 returns, cb_raises raises
\* an Exception whenever it is called
Callbacks == {"cb1", "cb_raises"}
RaisingCallbacks == {"cb_raises"}

\* A session id for which no ChatSession has been created
NoSession ==
    [allocated |-> FALSE, timeout_minutes |-> 0, max_duration_minutes |-> 0,
     start_time |-> 0, last_activity |-> 0, end_time |-> NoneNum,
     message_count |-> 0, total_tokens |-> 0, total_cost |-> 0,
     status |-> "active", timeout_callbacks |-> << >>]

\* ChatSession.__init__
NewChatSession(timeout_minutes, max_duration_minutes, clock) ==
    [allocated |-> TRUE, timeout_minutes |-> timeout_minutes,
     max_duration_minutes |-> max_duration_minutes,
     start_time |-> clock, last_activity |-> clock, end_time |-> NoneNum,
     message_count |-> 0, total_tokens |-> 0, total_cost |-> 0,
     status |-> "active", timeout_callbacks |-> << >>]

\* ChatSession.update_activity
UpdateActivity(s, clock) == [s EXCEPT !.last_activity = clock]

\* ChatSession.add_message
AddMessage(s, tokens, cost, clock) ==
    UpdateActivity([s EXCEPT !.message_count = @ + 1,
                             !.total_tokens = @ + tokens,
                             !.total_cost = @ + cost],
                   clock)

\* ChatSession._register_timeout_callback
RegisterTimeoutCallback(s, callback) ==
    IF callback \in Range(s.timeout_callbacks) THEN s
    ELSE [s EXCEPT !.timeout_callbacks = Append(@, callback)]

\* Mutant: the idle limit is reached at the limit itself
TimeoutReached_Inclusive(s, clock) == clock - s.last_activity >= s.timeout_minutes

\* should_end_session: time_since_activity > timedelta(minutes=self.timeout_minutes)
TimeoutReached(s, clock) == clock - s.last_activity > s.timeout_minutes

\* should_end_session: session_duration > timedelta(minutes=self.max_duration_minutes)
MaxDurationReached(s, clock) == clock - s.start_time > s.max_duration_minutes

\* should_end_session: the value it returns
ShouldEndSession(s, clock) == TimeoutReached(s, clock) \/ MaxDurationReached(s, clock)

\* should_end_session: the session after the call
AfterShouldEnd(s, clock) ==
    IF TimeoutReached(s, clock) THEN [s EXCEPT !.status = "timeout"]
    ELSE IF MaxDurationReached(s, clock) THEN [s EXCEPT !.status = "ended"]
    ELSE s

\* Mutant: the call of a callback is not wrapped in try/except
CallbackEscapes_Uncaught(callback) == callback \in RaisingCallbacks

\* _notify_timeout_callbacks: whether what callback raises leaves the loop; the
\* call is inside "try: ... except Exception", which catches and logs it
CallbackEscapes(callback) == FALSE

\* _notify_timeout_callbacks: the callbacks are called in the order they were
\* registered; the loop ends where an exception leaves it
RECURSIVE NotifyLoop(_, _)
NotifyLoop(callbacks, calls) ==
    IF callbacks = << >> THEN calls
    ELSE LET called == [calls EXCEPT ![Head(callbacks)] = @ + 1]
         IN  IF CallbackEscapes(Head(callbacks)) THEN called
             ELSE NotifyLoop(Tail(callbacks), called)

\* _notify_timeout_callbacks: the number of calls of each callback afterwards
NotifyTimeoutCallbacks(s, calls) == NotifyLoop(s.timeout_callbacks, calls)

\* _notify_timeout_callbacks: an exception leaves it
NotifyRaises(s) ==
    \E i \in 1..Len(s.timeout_callbacks) : CallbackEscapes(s.timeout_callbacks[i])

\* ChatSession.end_session
EndSession(s, reason, clock) == [s EXCEPT !.end_time = Num(clock), !.status = reason]

\* What lastcall holds: the call, its session, its argument and its return value
Call(op, sid, arg, result) ==
    [op |-> op, sid |-> sid, arg |-> arg, result |-> result, raised |-> FALSE]

\* A call that ended with an exception instead of a return value
RaisedCall(op, sid) ==
    [op |-> op, sid |-> sid, arg |-> NULL, result |-> NULL, raised |-> TRUE]

\* ------------------------------------------- VaqueroLangGraphHandler (object)
\* The handler is built on an SDK that has a trace collector. The callbacks of its
\* parent class VaqueroCallbackHandler are not among the source files: they do not
\* touch the fields below, and whether the parent's on_agent_start returns or
\* raises is an input of the call.

\* The run ids the callbacks are called with, the node each run executes, and the
\* runs LangGraph starts: r2 is a run id on_agent_start is never called with
Runs == {"r1", "r2"}
NodeOfRun == [r \in Runs |-> IF r = "r1" THEN "a" ELSE "b"]
StartedRuns == {"r1"}

\* The ids uuid4 hands out for the session trace, in the order it hands them out
TraceIdSeq == <<"t1", "t2">>

\* The n-th id uuid4 hands out for an agent orchestration
OrchestrationUuid(n) == "o" \o ToString(n)

NoNode == [active |-> FALSE, agent_name |-> NULL, start_time |-> 0]

\* The handler before its construction
NoHandler ==
    [created |-> FALSE, session |-> NULL, active_nodes |-> [r \in Runs |-> NoNode],
     message_sequence |-> 0, current_orchestration_id |-> NULL,
     session_trace_id |-> NULL, ntrace |-> 0, norch |-> 0,
     emitted |-> << >>, epoch |-> 0, lastop |-> [op |-> "other", run |-> NULL]]

\* VaqueroLangGraphHandler.__init__
InitHandler(session) == [NoHandler EXCEPT !.created = TRUE, !.session = session]

\* Mutant: every span gets a fresh trace id
EnsureTraceId_Fresh(h) ==
    [h EXCEPT !.session_trace_id = TraceIdSeq[(h.ntrace % Len(TraceIdSeq)) + 1],
              !.ntrace = @ + 1]

\* if self._session_trace_id is None: self._session_trace_id = str(uuid.uuid4())
EnsureTraceId(h) ==
    IF h.session_trace_id = NULL
    THEN [h EXCEPT !.session_trace_id = TraceIdSeq[h.ntrace + 1], !.ntrace = @ + 1]
    ELSE h

\* on_agent_end: if not self._current_orchestration_id: ... = str(uuid.uuid4())
EnsureOrchestrationId(h) ==
    IF ~Truthy(h.current_orchestration_id)
    THEN [h EXCEPT !.current_orchestration_id = OrchestrationUuid(h.norch + 1),
                   !.norch = @ + 1]
    ELSE h

\* Mutant: the run stays in the table after its span was sent
ActiveAfterEnd_Kept(nodes, run_id) == nodes

\* del self._active_nodes[run_id]
ActiveAfterEnd(nodes, run_id) == [nodes EXCEPT ![run_id] = NoNode]

\* The span handle_user_message builds
UserSpan(h, clock) ==
    MkSpan(h.session_trace_id, "user_message", ABSENT, "langgraph", PlainMetadata,
           h.session, h.session, ABSENT, ABSENT, AbsentNum, AbsentNum, AbsentNum,
           Num(clock * UsPerMs), Num(clock * UsPerMs))

\* The span _send_agent_span builds from node_info: the session keys, among them
\* agent_orchestration_id, are set when a session is attached
AgentSpan(h, node_info, clock) ==
    MkSpan(h.session_trace_id, node_info.agent_name, "agent", "langgraph", PlainMetadata,
           IF h.session # NULL THEN h.session ELSE ABSENT,
           IF h.session # NULL THEN h.session ELSE ABSENT,
           IF h.session # NULL THEN h.current_orchestration_id ELSE ABSENT,
           ABSENT, AbsentNum, AbsentNum, AbsentNum,
           Num(node_info.start_time * UsPerMs), Num(clock * UsPerMs))

\* History: one span handed to the collector, with the callback that sent it and
\* the number of finalize_langgraph_traces calls before it
Emitted(h, kind, span_data, run_id) ==
    [h EXCEPT !.emitted = Append(@, [kind |-> kind, run |-> run_id,
                                     trace_id |-> span_data.trace_id,
                                     agent_orchestration_id |-> span_data.agent_orchestration_id,
                                     epoch |-> h.epoch])]

LastOp(h, op, run_id) == [h EXCEPT !.lastop = [op |-> op, run |-> run_id]]

chatvars == <<now, sessions, objects, notified, lastcall, adders, handler>>

vars == <<processors, trace_processors, cached_user_id, cached_project_id,
          last, since, finalized, nfinal, threads, sdk, chatvars>>

Producers == {"p1", "p2"}

\* The threads that call add_message on a session they hold
AdderThreads == {"m1", "m2"}

\* A thread outside add_message: reg holds the attribute value it read, calls and
\* sent count its finished calls and their tokens
IdleAdder == [pc |-> "idle", sid |-> NULL, tokens |-> 0, cost |-> 0, reg |-> 0,
              loaded |-> FALSE, calls |-> 0, sent |-> 0]
Finalizer == "f"

\* A thread that has not called yet
IdleThread == [pc |-> "idle", span |-> NoSpan, raised |-> FALSE, into |-> NoProcessor,
               snap |-> << >>, found |-> FALSE]

\* SynquiSDK.__init__: the collector is created, nothing is shutting down
NewSdk == [collector |-> TRUE, pc |-> "running", pending |-> << >>,
           reconstructs |-> [t \in TraceIds |-> 0], posts |-> [t \in TraceIds |-> 0]]

\* UnifiedTraceCollector.__init__
Init ==
    /\ processors = [fw \in Frameworks |-> NewProcessor]
    /\ trace_processors = << >>
    /\ cached_user_id = NULL
    /\ cached_project_id = NULL
    /\ last = Last("init", NoSpan, NULL, FALSE, FALSE, << >>, << >>)
    /\ since = [t \in TraceIds |-> << >>]
    /\ finalized = [t \in TraceIds |-> 0]
    /\ nfinal = 0
    /\ threads = [th \in Producers \cup {Finalizer} |-> IdleThread]
    /\ sdk = NewSdk
    /\ now = 0
    /\ sessions = << >>
    /\ objects = [sid \in SessionIds |-> NoSession]
    /\ notified = [sid \in SessionIds |-> [cb \in Callbacks |-> 0]]
    /\ lastcall = Call("init", NULL, NULL, NULL)
    /\ adders = [th \in AdderThreads |-> IdleAdder]
    /\ handler = NoHandler

Accepted == Len(processors["langchain"].spans) + Len(processors["langgraph"].spans)

\* process_span(span_data)
ProcessSpan(span_data) ==
    LET trace_id == Get(span_data.trace_id)
        detect == NeedsDetection(trace_processors, trace_id)
        fw == RoutedProcessor(trace_processors, span_data)
    IN  IF ~SpanHasTraceId(span_data)
        THEN /\ last' = Last("process_span", span_data, trace_id, FALSE, FALSE, << >>, << >>)
             /\ UNCHANGED <<processors, trace_processors, cached_user_id,
                            cached_project_id, since, finalized, nfinal>>
        ELSE IF detect /\ LangGraphDetectRaises(span_data)
        THEN /\ last' = Last("process_span", span_data, trace_id, TRUE, TRUE, << >>, << >>)
             /\ UNCHANGED <<processors, trace_processors, cached_user_id,
                            cached_project_id, since, finalized, nfinal>>
        ELSE /\ Accepted < MaxSpans
             /\ trace_processors' =
                    IF HasKey(trace_processors, trace_id)
                    THEN [trace_processors EXCEPT ![IndexOf(trace_processors, trace_id)].proc = fw]
                    ELSE Append(trace_processors, [key |-> trace_id, proc |-> fw])
             /\ processors' = [processors EXCEPT ![fw] = AddSpan(fw, @, span_data)]
             /\ since' = [since EXCEPT ![trace_id] = Append(@, span_data)]
             /\ last' = Last("process_span", span_data, trace_id, FALSE, detect, << >>, << >>)
             /\ UNCHANGED <<cached_user_id, cached_project_id, finalized, nfinal>>

\* The backend is asked only what the call uses: nothing when no batch is sent,
\* no whoami answer when the user id is cached
EnvUsed(procs, tp, cu, trace_id, env) ==
    LET fw == FinalizeTarget(tp, trace_id)
        sends == fw # NoProcessor /\ ~ProcessTraceRaises(fw, procs[fw])
    IN  /\ ~sends => env = [whoami |-> "200", post |-> "2xx"]
        /\ cu # NULL => env.whoami = "200"

\* finalize_trace(trace_id)
FinalizeTrace(trace_id, env) ==
    /\ nfinal < MaxFinalize
    /\ EnvUsed(processors, trace_processors, cached_user_id, trace_id, env)
    /\ \E st \in {FinalizeCall(processors,
                               [tp |-> trace_processors, cu |-> cached_user_id,
                                cp |-> cached_project_id, fin |-> << >>],
                               trace_id, env)} :
          /\ nfinal' = nfinal + 1
          /\ trace_processors' = st.tp
          /\ cached_user_id' = st.cu
          /\ cached_project_id' = st.cp
          /\ last' = Last("finalize_trace", NoSpan, trace_id, FALSE, FALSE,
                          IF trace_id \in TraceIds THEN since[trace_id] ELSE << >>, st.fin)
          /\ since' = IF st.fin[1].found THEN [since EXCEPT ![trace_id] = << >>] ELSE since
          /\ finalized' = IF st.fin[1].found THEN [finalized EXCEPT ![trace_id] = @ + 1]
                          ELSE finalized
          /\ UNCHANGED processors

\* end_trace(trace_id, end_data); end_data is not read
EndTrace(trace_id, env) ==
    /\ nfinal < MaxFinalize
    /\ EnvUsed(processors, trace_processors, cached_user_id, trace_id, env)
    /\ \E st \in {EndCall(processors,
                          [tp |-> trace_processors, cu |-> cached_user_id,
                           cp |-> cached_project_id, fin |-> << >>],
                          trace_id, env)} :
          /\ nfinal' = nfinal + 1
          /\ trace_processors' = st.tp
          /\ cached_user_id' = st.cu
          /\ cached_project_id' = st.cp
          /\ last' = Last("end_trace", NoSpan, trace_id, FALSE, FALSE,
                          IF trace_id \in TraceIds THEN since[trace_id] ELSE << >>, st.fin)
          /\ since' = IF st.fin[1].found /\ ~st.fin[1].recon_raised
                      THEN [since EXCEPT ![trace_id] = << >>] ELSE since
          /\ finalized' = IF st.fin[1].found /\ ~st.fin[1].recon_raised
                          THEN [finalized EXCEPT ![trace_id] = @ + 1] ELSE finalized
          /\ UNCHANGED processors

\* UnifiedTraceCollector.shutdown()
Shutdown(envs) ==
    /\ nfinal < MaxFinalize
    /\ \A t \in TraceIds :
          EnvUsed(processors, trace_processors, cached_user_id, t, envs[t])
    /\ \E pending \in {PendingTraces(trace_processors)} :
       \E st \in {Drain(processors,
                        [tp |-> trace_processors, cu |-> cached_user_id,
                         cp |-> cached_project_id, fin |-> << >>],
                        pending, envs)} :
          /\ nfinal' = nfinal + 1
          /\ trace_processors' = st.tp
          /\ cached_user_id' = st.cu
          /\ cached_project_id' = st.cp
          /\ last' = Last("shutdown", NoSpan, NULL, FALSE, FALSE, << >>, st.fin)
          /\ since' = [t \in TraceIds |-> IF t \in Range(pending) THEN << >> ELSE since[t]]
          /\ finalized' = [t \in TraceIds |->
                              IF t \in Range(pending) THEN finalized[t] + 1 ELSE finalized[t]]
          /\ UNCHANGED processors

\* The spans the producers of the model send
CollectorSpans ==
    {MkSpan(tid, "a", "agent", "langgraph", PlainMetadata, NULL, NULL, NULL, NULL,
            Num(1), Num(1), Num(1), Num(0), Num(2000)) : tid \in {ABSENT, NULL, "", "t1"}}
    \cup
    {MkSpan("t1", "b", "agent", ABSENT, PlainMetadata, NULL, NULL, NULL, NULL,
            Num(2), Num(0), Num(1), Num(1000), Num(3500)),
     MkSpan("t1", "c", "agent", "langgraph", PlainMetadata, NULL, NULL, NULL, NULL,
            NoneNum, Num(1), Num(1), Num(0), Num(1000)),
     MkSpan("t2", "b", "agent", "langgraph", PlainMetadata, NULL, NULL, NULL, NULL,
            Num(3), Num(1), Num(2), Num(100), Num(2600)),
     MkSpan("t2", NULL, "agent", ABSENT, LangGraphMetadata, NULL, NULL, NULL, NULL,
            Num(1), Num(1), Num(1), Num(0), Num(1000))}

FinalizeIds == TraceIds \cup {"missing"}

Next ==
    \/ \E span_data \in CollectorSpans :
          ProcessSpan(span_data) /\ UNCHANGED <<threads, sdk, chatvars>>
    \/ \E trace_id \in FinalizeIds, env \in CollectorEnvs :
          FinalizeTrace(trace_id, env) /\ UNCHANGED <<threads, sdk, chatvars>>

Spec == Init /\ [][Next]_vars

\* The spans of the dispatch specification: a trace in a chat session and a trace
\* without one
DispatchSpans ==
    {MkSpan("t1", "a", "agent", "langgraph", PlainMetadata, "s1", "c1", NULL, NULL,
            Num(1), Num(1), Num(1), Num(0), Num(1500)),
     MkSpan("t2", "b", "agent", "langgraph", PlainMetadata, NULL, NULL, NULL, NULL,
            Num(2), Num(0), Num(1), Num(0), Num(1000))}

NextDispatch ==
    \/ \E span_data \in DispatchSpans :
          ProcessSpan(span_data) /\ UNCHANGED <<threads, sdk, chatvars>>
    \/ \E trace_id \in TraceIds, env \in Envs :
          FinalizeTrace(trace_id, env) /\ UNCHANGED <<threads, sdk, chatvars>>

\* The collector with every answer the backend can give
SpecDispatch == Init /\ [][NextDispatch]_vars

\* The spans the producers send before a shutdown
DrainSpans ==
    {MkSpan("t1", "a", "agent", "langgraph", PlainMetadata, NULL, NULL, NULL, NULL,
            Num(1), Num(1), Num(1), Num(0), Num(2000)),
     MkSpan("t1", "c", "agent", "langgraph", PlainMetadata, NULL, NULL, NULL, NULL,
            NoneNum, Num(1), Num(1), Num(0), Num(1000)),
     MkSpan("t2", "b", "agent", "langgraph", PlainMetadata, NULL, NULL, NULL, NULL,
            Num(3), Num(1), Num(2), Num(100), Num(2600)),
     MkSpan("t2", "a", "llm", ABSENT, PlainMetadata, NULL, NULL, NULL, NULL,
            Num(1), Num(0), Num(1), Num(200), Num(1200))}

NextDrain ==
    \/ \E span_data \in DrainSpans :
          ProcessSpan(span_data) /\ UNCHANGED <<threads, sdk, chatvars>>
    \/ \E trace_id \in TraceIds, env \in CollectorEnvs :
          FinalizeTrace(trace_id, env) /\ UNCHANGED <<threads, sdk, chatvars>>
    \/ \E envs \in [TraceIds -> CollectorEnvs] :
          Shutdown(envs) /\ UNCHANGED <<threads, sdk, chatvars>>

\* Producers, finalize_trace calls and collector shutdowns, one call at a time
SpecDrain == Init /\ [][NextDrain]_vars

NextEnd ==
    \/ \E span_data \in DrainSpans :
          ProcessSpan(span_data) /\ UNCHANGED <<threads, sdk, chatvars>>
    \/ \E trace_id \in TraceIds, env \in CollectorEnvs :
          FinalizeTrace(trace_id, env) /\ UNCHANGED <<threads, sdk, chatvars>>
    \/ \E trace_id \in TraceIds, env \in CollectorEnvs :
          EndTrace(trace_id, env) /\ UNCHANGED <<threads, sdk, chatvars>>

\* Producers with both ways of closing a trace
SpecEnd == Init /\ [][NextEnd]_vars

\* ------------------------------------------- concurrent callers, step by step
\* process_span and finalize_trace take no lock: between two of the steps below
\* another thread may run.

\* self.trace_processors[trace_id] = processor
DictSet(tp, trace_id, fw) ==
    IF HasKey(tp, trace_id)
    THEN [tp EXCEPT ![IndexOf(tp, trace_id)].proc = fw]
    ELSE Append(tp, [key |-> trace_id, proc |-> fw])

\* process_span up to "if trace_id not in self.trace_processors"
PS_Check(th, span_data) ==
    /\ threads[th].pc = "idle"
    /\ threads' = [threads EXCEPT ![th].span = span_data,
                                  ![th].pc =
                                      IF ~SpanHasTraceId(span_data) THEN "done"
                                      ELSE IF NeedsDetection(trace_processors, span_data.trace_id)
                                           THEN "create"
                                      ELSE "append"]
    /\ UNCHANGED <<processors, trace_processors, cached_user_id, cached_project_id,
                   last, since, finalized, nfinal, sdk, chatvars>>

\* process_span: detect the framework and store the processor in the map
PS_Create(th) ==
    /\ threads[th].pc = "create"
    /\ IF LangGraphDetectRaises(threads[th].span)
       THEN /\ threads' = [threads EXCEPT ![th].pc = "done", ![th].raised = TRUE]
            /\ UNCHANGED trace_processors
       ELSE /\ trace_processors' = DictSet(trace_processors, threads[th].span.trace_id,
                                           DetectFramework(threads[th].span))
            /\ threads' = [threads EXCEPT ![th].pc = "append"]
    /\ UNCHANGED <<processors, cached_user_id, cached_project_id,
                   last, since, finalized, nfinal, sdk, chatvars>>

\* process_span: read the processor from the map (KeyError if the entry is gone)
\* and add the span to it
PS_Append(th) ==
    /\ threads[th].pc = "append"
    /\ IF ~HasKey(trace_processors, threads[th].span.trace_id)
       THEN /\ threads' = [threads EXCEPT ![th].pc = "done", ![th].raised = TRUE]
            /\ UNCHANGED processors
       ELSE \E fw \in {ProcessorOf(trace_processors, threads[th].span.trace_id)} :
            /\ processors' = [processors EXCEPT ![fw] = AddSpan(fw, @, threads[th].span)]
            /\ threads' = [threads EXCEPT ![th].pc = "done", ![th].into = fw]
    /\ UNCHANGED <<trace_processors, cached_user_id, cached_project_id,
                   last, since, finalized, nfinal, sdk, chatvars>>

\* finalize_trace up to "if trace_id not in self.trace_processors: return"
F_Check(trace_id) ==
    /\ threads[Finalizer].pc = "idle"
    /\ threads' = [threads EXCEPT
                      ![Finalizer].span = [NoSpan EXCEPT !.trace_id = trace_id],
                      ![Finalizer].found = HasKey(trace_processors, trace_id),
                      ![Finalizer].pc =
                          IF HasKey(trace_processors, trace_id) THEN "reconstruct"
                          ELSE "done"]
    /\ UNCHANGED <<processors, trace_processors, cached_user_id, cached_project_id,
                   last, since, finalized, nfinal, sdk, chatvars>>

\* finalize_trace: the try block. process_trace reads the buffer of the processor
\* (snap), _send_to_database posts the batch. A KeyError of the lookup is caught.
F_Reconstruct(env) ==
    /\ threads[Finalizer].pc = "reconstruct"
    /\ \E tid \in {threads[Finalizer].span.trace_id} :
       \E st \in {FinalizeCall(processors,
                               [tp |-> trace_processors, cu |-> cached_user_id,
                                cp |-> cached_project_id, fin |-> << >>],
                               tid, env)} :
          /\ EnvUsed(processors, trace_processors, cached_user_id, tid, env)
          /\ cached_user_id' = st.cu
          /\ cached_project_id' = st.cp
          /\ last' = Last("finalize_trace", NoSpan, tid, FALSE, FALSE, << >>, st.fin)
          /\ threads' = [threads EXCEPT
                            ![Finalizer].pc = "cleanup",
                            ![Finalizer].snap =
                                IF st.fin[1].found /\ ~st.fin[1].recon_raised
                                THEN processors[st.fin[1].fw].spans ELSE << >>]
    /\ UNCHANGED <<processors, trace_processors, since, finalized, nfinal, sdk, chatvars>>

\* finalize_trace: the finally block
F_Cleanup ==
    /\ threads[Finalizer].pc = "cleanup"
    /\ trace_processors' =
          FinalizeCleanup(trace_processors, threads[Finalizer].span.trace_id, FALSE)
    /\ threads' = [threads EXCEPT ![Finalizer].pc = "done"]
    /\ UNCHANGED <<processors, cached_user_id, cached_project_id,
                   last, since, finalized, nfinal, sdk, chatvars>>

\* The first spans two threads send for the same, not yet known trace
RaceSpans(th) ==
    IF th = "p1"
    THEN {MkSpan("t1", "a", "agent", "langgraph", PlainMetadata, NULL, NULL, NULL, NULL,
                 Num(1), Num(1), Num(1), Num(0), Num(2000)),
          MkSpan("t1", "c", "agent", ABSENT, PlainMetadata, NULL, NULL, NULL, NULL,
                 Num(1), Num(0), Num(1), Num(0), Num(1000))}
    ELSE {MkSpan("t1", "b", "agent", ABSENT, PlainMetadata, NULL, NULL, NULL, NULL,
                 Num(2), Num(0), Num(1), Num(1000), Num(3500)),
          MkSpan("t1", "d", "agent", "langgraph", PlainMetadata, NULL, NULL, NULL, NULL,
                 Num(3), Num(1), Num(2), Num(100), Num(2600)),
          MkSpan("t1", NULL, "agent", ABSENT, PlainMetadata, NULL, NULL, NULL, NULL,
                 Num(1), Num(1), Num(1), Num(0), Num(1000))}

NextRace ==
    \/ \E th \in Producers : \E span_data \in RaceSpans(th) : PS_Check(th, span_data)
    \/ \E th \in Producers : PS_Create(th)
    \/ \E th \in Producers : PS_Append(th)
    \/ F_Check("t1")
    \/ \E env \in CollectorEnvs : F_Reconstruct(env)
    \/ F_Cleanup

\* Two producer threads and one finalizing thread, interleaved step by step
SpecRace == Init /\ [][NextRace]_vars

\* ------------------------------------------------ SynquiSDK.shutdown and exit
\* SynquiSDK.__init__ registers shutdown with atexit and installs a handler for
\* SIGINT and SIGTERM that calls shutdown() and then exit(0). The handler runs on
\* the main thread between two steps of whatever the main thread is doing.

\* The process_trace calls and the POSTs of the finalize calls in fin, per trace
RECURSIVE Counted(_, _)
Counted(s, fin) ==
    IF fin = << >> THEN s
    ELSE Counted(IF Head(fin).found
                 THEN [s EXCEPT !.reconstructs[Head(fin).tid] = @ + 1,
                                !.posts[Head(fin).tid] = @ + Head(fin).posts]
                 ELSE s,
                 Tail(fin))

\* SynquiSDK._send_trace: the span goes to the collector while the SDK runs
SdkSendTrace(span_data) ==
    /\ sdk.pc = "running"
    /\ sdk.collector
    /\ ProcessSpan(span_data)
    /\ UNCHANGED <<threads, sdk, chatvars>>

\* The application calls SynquiSDK.shutdown(): with a collector, the collector's
\* shutdown starts and lists the pending traces; without one, nothing happens
SdkShutdown ==
    /\ sdk.pc \in {"running", "returned"}
    /\ sdk' = IF sdk.collector
              THEN [sdk EXCEPT !.pc = "loop", !.pending = PendingTraces(trace_processors)]
              ELSE [sdk EXCEPT !.pc = "returned"]
    /\ UNCHANGED <<processors, trace_processors, cached_user_id, cached_project_id,
                   last, since, finalized, nfinal, threads, chatvars>>

\* collector.shutdown: the next pending trace, finalize_trace up to its membership
\* check; after the last one SynquiSDK.shutdown drops the collector
ShutdownNext ==
    /\ sdk.pc = "loop"
    /\ sdk' = IF sdk.pending = << >>
              THEN [sdk EXCEPT !.pc = "returned", !.collector = FALSE]
              ELSE IF HasKey(trace_processors, Head(sdk.pending))
              THEN [sdk EXCEPT !.pc = "reconstruct"]
              ELSE [sdk EXCEPT !.pending = Tail(@)]
    /\ UNCHANGED <<processors, trace_processors, cached_user_id, cached_project_id,
                   last, since, finalized, nfinal, threads, chatvars>>

\* finalize_trace of the pending trace: the try block (process_trace and send)
ShutdownReconstruct(env) ==
    /\ sdk.pc = "reconstruct"
    /\ \E tid \in {Head(sdk.pending)} :
       \E st \in {FinalizeCall(processors,
                               [tp |-> trace_processors, cu |-> cached_user_id,
                                cp |-> cached_project_id, fin |-> << >>],
                               tid, env)} :
          /\ EnvUsed(processors, trace_processors, cached_user_id, tid, env)
          /\ cached_user_id' = st.cu
          /\ cached_project_id' = st.cp
          /\ sdk' = [Counted(sdk, st.fin) EXCEPT !.pc = "cleanup"]
    /\ UNCHANGED <<processors, trace_processors, last, since, finalized, nfinal, threads, chatvars>>

\* finalize_trace of the pending trace: the finally block
ShutdownCleanup ==
    /\ sdk.pc = "cleanup"
    /\ trace_processors' = FinalizeCleanup(trace_processors, Head(sdk.pending), FALSE)
    /\ sdk' = [sdk EXCEPT !.pc = "loop", !.pending = Tail(@)]
    /\ UNCHANGED <<processors, cached_user_id, cached_project_id,
                   last, since, finalized, nfinal, threads, chatvars>>

\* A whole SynquiSDK.shutdown() that nothing interrupts, then the process ends
ShutdownAndExit(envs) ==
    /\ \A t \in TraceIds :
          EnvUsed(processors, trace_processors, cached_user_id, t, envs[t])
    /\ \E st \in {IF sdk.collector
                  THEN Drain(processors,
                             [tp |-> trace_processors, cu |-> cached_user_id,
                              cp |-> cached_project_id, fin |-> << >>],
                             PendingTraces(trace_processors), envs)
                  ELSE [tp |-> trace_processors, cu |-> cached_user_id,
                        cp |-> cached_project_id, fin |-> << >>]} :
          /\ trace_processors' = st.tp
          /\ cached_user_id' = st.cu
          /\ cached_project_id' = st.cp
          /\ sdk' = [Counted(sdk, st.fin) EXCEPT !.pc = "exited", !.collector = FALSE,
                                                 !.pending = << >>]
    /\ UNCHANGED <<processors, last, since, finalized, nfinal, threads, chatvars>>

\* signal_handler: SIGINT or SIGTERM arrives, also in the middle of a shutdown.
\* The handler calls shutdown() and exit(0); the interrupted call is unwound (its
\* finally block finds the entry already deleted) and atexit finds no collector.
SignalHandler(envs) ==
    /\ sdk.pc \in {"running", "loop", "reconstruct", "cleanup", "returned"}
    /\ ShutdownAndExit(envs)

\* The program ends normally: atexit calls shutdown()
AtExit(envs) ==
    /\ sdk.pc \in {"running", "returned"}
    /\ ShutdownAndExit(envs)

NextSdk ==
    \/ \E span_data \in DrainSpans : SdkSendTrace(span_data)
    \/ SdkShutdown
    \/ ShutdownNext
    \/ \E env \in CollectorEnvs : ShutdownReconstruct(env)
    \/ ShutdownCleanup
    \/ \E envs \in [TraceIds -> CollectorEnvs] : SignalHandler(envs)
    \/ \E envs \in [TraceIds -> CollectorEnvs] : AtExit(envs)

\* The SDK from construction to the end of the process
SpecSdk == Init /\ [][NextSdk]_vars

\* ------------------------------------- LangGraphProcessor, called directly
\* add_span and process_trace on one LangGraphProcessor, for the properties of
\* the reconstruction. The processor is processors["langgraph"]; the result of
\* process_trace is recorded in last.fin.

\* The span shapes: (name, component_type, orchestration id, parent, tokens)
GraphShapes ==
    {<<"a", "agent", NULL, NULL, Num(1), Num(1), Num(1)>>,
     <<"a", "agent", NULL, NULL, AbsentNum, Num(2), AbsentNum>>,
     <<"b", "agent", "o1", NULL, Num(2), Num(0), Num(1)>>,
     <<"c", "agent", "o2", NULL, Num(1), Num(0), Num(0)>>,
     <<"llm1", "llm", NULL, "a", Num(3), Num(1), Num(2)>>}

\* Each shape with and without a chat session, and one span whose token count is None
GraphSpans ==
    {MkSpan("t1", sh[1], sh[2], "langgraph", PlainMetadata,
            IF csid = NULL THEN NULL ELSE "s1", csid, sh[3], sh[4],
            sh[5], sh[6], sh[7], Num(0), Num(1500)) :
        sh \in GraphShapes, csid \in {NULL, "c1"}}
    \cup
    {MkSpan("t1", "a", "agent", "langgraph", PlainMetadata, "s1", "c1", NULL, NULL,
            NoneNum, Num(1), Num(1), Num(0), Num(1500))}

\* processor.add_span(span_data)
GraphAddSpan(span_data) ==
    /\ Len(processors["langgraph"].spans) < MaxGraphSpans
    /\ processors' = [processors EXCEPT !["langgraph"] = LangGraphAddSpan(@, span_data)]
    /\ last' = Last("add_span", span_data, span_data.trace_id, FALSE, FALSE, << >>, << >>)
    /\ UNCHANGED <<trace_processors, cached_user_id, cached_project_id,
                   since, finalized, nfinal, threads, sdk, chatvars>>

\* processor.process_trace(trace_id): the trace it returns, or that it raised
GraphProcessTrace(trace_id) ==
    /\ \E p \in {processors["langgraph"]} :
       \E raises \in {LangGraphProcessTraceRaises(p)} :
          last' = Last("process_trace", NoSpan, trace_id, raises, FALSE, << >>,
                       <<FinRec(trace_id, TRUE, "langgraph", raises,
                                IF raises THEN NoTrace ELSE LangGraphProcessTrace(p, trace_id),
                                0, NoHeaders, "none", FALSE)>>)
    /\ UNCHANGED <<processors, trace_processors, cached_user_id, cached_project_id,
                   since, finalized, nfinal, threads, sdk, chatvars>>

NextGraph ==
    \/ \E span_data \in GraphSpans : GraphAddSpan(span_data)
    \/ GraphProcessTrace("t1")

\* One LangGraphProcessor from construction on
SpecGraph == Init /\ [][NextGraph]_vars

\* Spans of one trace that differ in their session ids and in their times
ScanSpans ==
    {MkSpan("t1", "a", "agent", "langgraph", PlainMetadata, "s1", NULL, NULL, NULL,
            Num(1), Num(1), Num(1), Num(2000), Num(3000)),
     MkSpan("t1", "b", "agent", "langgraph", PlainMetadata, "s2", NULL, NULL, NULL,
            Num(1), Num(0), Num(1), Num(0), Num(1000)),
     MkSpan("t1", "a", "agent", "langgraph", PlainMetadata, NULL, "c1", NULL, NULL,
            Num(2), Num(1), Num(0), Num(1000), Num(5000)),
     MkSpan("t1", "c", "agent", "langgraph", PlainMetadata, "s2", "c1", NULL, NULL,
            Num(1), Num(1), Num(2), Num(500), Num(2500)),
     MkSpan("t1", "b", "agent", "langgraph", PlainMetadata, NULL, NULL, "o1", NULL,
            Num(1), Num(1), Num(1), Num(0), Num(6000))}

NextScan ==
    \/ \E span_data \in ScanSpans : GraphAddSpan(span_data)
    \/ GraphProcessTrace("t1")

\* One LangGraphProcessor given spans with mixed session ids and times
SpecScan == Init /\ [][NextScan]_vars

\* ---------------------------------- ChatSession and ChatSessionManager calls

collectorvars == <<processors, trace_processors, cached_user_id, cached_project_id,
                   last, since, finalized, nfinal, threads, sdk>>

\* Time passes; the last call is over
Tick ==
    /\ now < MaxClock
    /\ now' = now + 1
    /\ lastcall' = Call("tick", NULL, NULL, NULL)
    /\ UNCHANGED <<sessions, objects, notified, collectorvars, adders, handler>>

\* ChatSessionManager.create_session: a new id (uuid4 hands out ids), a new
\* session, tracked
CreateSession(ids, timeout_minutes, max_duration_minutes) ==
    /\ \E i \in 1..Len(ids) : \E sid \in {ids[i]} :
          /\ ~objects[sid].allocated
          /\ \A j \in 1..(i - 1) : objects[ids[j]].allocated
          /\ objects' = [objects EXCEPT
                            ![sid] = NewChatSession(timeout_minutes, max_duration_minutes, now)]
          /\ sessions' = Append(sessions, sid)
          /\ lastcall' = Call("create_session", sid, NULL, sid)
    /\ UNCHANGED <<now, notified, collectorvars, adders, handler>>

\* session.update_activity()
SessionUpdateActivity(sid) ==
    /\ objects[sid].allocated
    /\ objects' = [objects EXCEPT ![sid] = UpdateActivity(@, now)]
    /\ lastcall' = Call("update_activity", sid, NULL, NULL)
    /\ UNCHANGED <<now, sessions, notified, collectorvars, adders, handler>>

\* session.add_message(tokens, cost)
SessionAddMessage(sid, tokens, cost) ==
    /\ objects[sid].allocated
    /\ objects[sid].message_count < MaxMessages
    /\ objects' = [objects EXCEPT ![sid] = AddMessage(@, tokens, cost, now)]
    /\ lastcall' = Call("add_message", sid, NULL, NULL)
    /\ UNCHANGED <<now, sessions, notified, collectorvars, adders, handler>>

\* session._register_timeout_callback(callback)
SessionRegisterCallback(sid, callback) ==
    /\ objects[sid].allocated
    /\ objects' = [objects EXCEPT ![sid] = RegisterTimeoutCallback(@, callback)]
    /\ lastcall' = Call("register_timeout_callback", sid, callback, NULL)
    /\ UNCHANGED <<now, sessions, notified, collectorvars, adders, handler>>

\* session.should_end_session()
SessionShouldEnd(sid) ==
    /\ objects[sid].allocated
    /\ \A cb \in Callbacks : notified[sid][cb] < MaxNotify
    /\ objects' = [objects EXCEPT ![sid] = AfterShouldEnd(@, now)]
    /\ notified' = IF ShouldEndSession(objects[sid], now)
                   THEN [notified EXCEPT ![sid] = NotifyTimeoutCallbacks(objects[sid], @)]
                   ELSE notified
    /\ lastcall' = IF ShouldEndSession(objects[sid], now) /\ NotifyRaises(objects[sid])
                   THEN RaisedCall("should_end_session", sid)
                   ELSE Call("should_end_session", sid, NULL,
                             ShouldEndSession(objects[sid], now))
    /\ UNCHANGED <<now, sessions, collectorvars, adders, handler>>

\* session.end_session(reason)
SessionEndSession(sid, reason) ==
    /\ objects[sid].allocated
    /\ objects' = [objects EXCEPT ![sid] = EndSession(@, reason, now)]
    /\ lastcall' = Call("end_session", sid, reason, NULL)
    /\ UNCHANGED <<now, sessions, notified, collectorvars, adders, handler>>

\* manager.end_session(session_id, reason): False for an id that is not tracked
ManagerEndSession(sid, reason) ==
    /\ IF sid \in Range(sessions)
       THEN /\ objects' = [objects EXCEPT ![sid] = EndSession(@, reason, now)]
            /\ lastcall' = Call("manager.end_session", sid, reason, TRUE)
       ELSE /\ UNCHANGED objects
            /\ lastcall' = Call("manager.end_session", sid, reason, FALSE)
    /\ UNCHANGED <<now, sessions, notified, collectorvars, adders, handler>>

\* Mutant: get_session hides a session that is not active
GetSession_ActiveOnly(tracked, objs, sid) ==
    IF sid \in Range(tracked) /\ objs[sid].status = "active" THEN sid ELSE NULL

\* self.sessions.get(session_id): the session of that id, None for an id that is
\* not in the map
GetSession(tracked, objs, sid) ==
    IF sid \in Range(tracked) THEN sid ELSE NULL

\* get_active_sessions: the tracked sessions whose status is active
ActiveSessions(tracked, objs) == SelectSeq(tracked, LAMBDA sid : objs[sid].status = "active")

\* get_session_stats: counts and sums over self.sessions.values()
SessionStats(tracked, objs) ==
    [total_sessions |-> Len(tracked),
     active_sessions |-> Len(ActiveSessions(tracked, objs)),
     expired_sessions |-> Len(tracked) - Len(ActiveSessions(tracked, objs)),
     total_messages |-> SeqSum([i \in 1..Len(tracked) |-> objs[tracked[i]].message_count]),
     total_tokens |-> SeqSum([i \in 1..Len(tracked) |-> objs[tracked[i]].total_tokens]),
     total_cost |-> SeqSum([i \in 1..Len(tracked) |-> objs[tracked[i]].total_cost])]

\* manager.get_session(session_id)
ManagerGetSession(sid) ==
    /\ lastcall' = Call("get_session", sid, NULL, GetSession(sessions, objects, sid))
    /\ UNCHANGED <<now, sessions, objects, notified, collectorvars, adders, handler>>

\* manager.get_active_sessions()
ManagerGetActiveSessions ==
    /\ lastcall' = Call("get_active_sessions", NULL, NULL, ActiveSessions(sessions, objects))
    /\ UNCHANGED <<now, sessions, objects, notified, collectorvars, adders, handler>>

\* manager.get_session_stats()
ManagerGetSessionStats ==
    /\ lastcall' = Call("get_session_stats", NULL, NULL, SessionStats(sessions, objects))
    /\ UNCHANGED <<now, sessions, objects, notified, collectorvars, adders, handler>>

\* Mutant: the sweep takes every tracked session for expired
ExpiredSessions_All(tracked, objs, clock) == tracked

\* cleanup_expired_sessions: the tracked sessions whose should_end_session is true
ExpiredSessions(tracked, objs, clock) ==
    SelectSeq(tracked, LAMBDA sid : ShouldEndSession(objs[sid], clock))

\* cleanup_expired_sessions, first loop: the position in self.sessions of the
\* session whose should_end_session raises, 0 when none does
RECURSIVE SweepStop(_, _, _, _)
SweepStop(tracked, objs, clock, i) ==
    IF i > Len(tracked) THEN 0
    ELSE IF ShouldEndSession(objs[tracked[i]], clock) /\ NotifyRaises(objs[tracked[i]])
    THEN i
    ELSE SweepStop(tracked, objs, clock, i + 1)

\* manager.cleanup_expired_sessions(): should_end_session is called on every
\* tracked session in turn; then the expired ones are popped and ended with reason
\* "timeout". An exception in the first loop ends the call before anything is
\* popped.
CleanupExpiredSessions ==
    /\ \A sid \in Range(sessions), cb \in Callbacks : notified[sid][cb] < MaxNotify
    /\ \E stop \in {SweepStop(sessions, objects, now, 1)} :
       \E evaluated \in {IF stop = 0 THEN sessions ELSE SubSeq(sessions, 1, stop)} :
       \E expired \in {ExpiredSessions(evaluated, objects, now)} :
          /\ objects' = [sid \in SessionIds |->
                            IF sid \in Range(expired) /\ stop = 0
                            THEN EndSession(AfterShouldEnd(objects[sid], now), "timeout", now)
                            ELSE IF sid \in Range(evaluated)
                            THEN AfterShouldEnd(objects[sid], now)
                            ELSE objects[sid]]
          /\ notified' = [sid \in SessionIds |->
                             IF sid \in Range(expired)
                             THEN NotifyTimeoutCallbacks(objects[sid], notified[sid])
                             ELSE notified[sid]]
          /\ sessions' = IF stop = 0
                         THEN SelectSeq(sessions, LAMBDA sid : sid \notin Range(expired))
                         ELSE sessions
          /\ lastcall' = IF stop = 0
                         THEN Call("cleanup_expired_sessions", NULL, NULL, Len(expired))
                         ELSE RaisedCall("cleanup_expired_sessions", NULL)
    /\ UNCHANGED <<now, collectorvars, adders, handler>>

\* The reasons callers pass to end_session: the default, the documented ones, the
\* one of the article explainer demo, and a status name
EndReasons == {"ended", "cancelled", "user_shutdown", "active"}

TimeoutChoices == {1, 2}
MaxDurationChoices == {3}

\* The callback the holder of the one session registers
ChatCallbacks == {"cb1"}

\* One session and everything its holder and the manager can call
ChatIdSeq == <<"s1">>
ChatIds == Range(ChatIdSeq)

NextChat ==
    \/ Tick
    \/ \E tm \in TimeoutChoices, md \in MaxDurationChoices : CreateSession(ChatIdSeq, tm, md)
    \/ \E sid \in ChatIds : SessionUpdateActivity(sid)
    \/ \E sid \in ChatIds : SessionAddMessage(sid, 1, 1)
    \/ \E sid \in ChatIds, cb \in ChatCallbacks : SessionRegisterCallback(sid, cb)
    \/ \E sid \in ChatIds : SessionShouldEnd(sid)
    \/ \E sid \in ChatIds, reason \in EndReasons : SessionEndSession(sid, reason)
    \/ \E sid \in ChatIds, reason \in EndReasons : ManagerEndSession(sid, reason)
    \/ \E sid \in ChatIds : ManagerGetSession(sid)
    \/ ManagerGetActiveSessions
    \/ ManagerGetSessionStats
    \/ CleanupExpiredSessions

\* One chat session and the manager
SpecChat == Init /\ [][NextChat]_vars

\* Several sessions under the manager's sweep
NextManager ==
    \/ Tick
    \/ \E tm \in TimeoutChoices, md \in MaxDurationChoices : CreateSession(SessionIdSeq, tm, md)
    \/ \E sid \in SessionIds : SessionAddMessage(sid, 1, 1)
    \/ \E sid \in SessionIds : ManagerEndSession(sid, "cancelled")
    \/ CleanupExpiredSessions

\* The manager with more than one session
SpecManager == Init /\ [][NextManager]_vars

\* The timeout_minutes of the sessions that have callbacks
CallbackTimeouts == {1}

\* Sessions with callbacks, one of which raises, under should_end_session and
\* the sweep
NextCallbacks ==
    \/ Tick
    \/ \E tm \in CallbackTimeouts, md \in MaxDurationChoices :
          CreateSession(SessionIdSeq, tm, md)
    \/ \E sid \in SessionIds, cb \in Callbacks : SessionRegisterCallback(sid, cb)
    \/ \E sid \in SessionIds : SessionShouldEnd(sid)
    \/ CleanupExpiredSessions

SpecCallbacks == Init /\ [][NextCallbacks]_vars

\* ------------------------------------- add_message on concurrent threads
\* add_message runs without a lock. Each "self.x += v" is a read of the attribute
\* followed by a write of the sum, and another thread can run between the two.

\* The attribute the statement at pc reads and writes, and the statement after it
AdderField(pc) ==
    IF pc = "count" THEN "message_count"
    ELSE IF pc = "tokens" THEN "total_tokens"
    ELSE "total_cost"

AdderNextPc(pc) ==
    IF pc = "count" THEN "tokens"
    ELSE IF pc = "tokens" THEN "cost"
    ELSE "activity"

\* What the statement at pc adds
AdderOperand(a) ==
    IF a.pc = "count" THEN 1
    ELSE IF a.pc = "tokens" THEN a.tokens
    ELSE a.cost

\* session.add_message(tokens, cost) is entered
AM_Call(th, sid, tokens, cost) ==
    /\ adders[th].pc = "idle"
    /\ adders[th].calls < MaxMessages
    /\ objects[sid].allocated
    /\ adders' = [adders EXCEPT ![th].pc = "count", ![th].sid = sid,
                                ![th].tokens = tokens, ![th].cost = cost,
                                ![th].loaded = FALSE]
    /\ UNCHANGED <<now, sessions, objects, notified, lastcall, collectorvars, handler>>

\* "self.x += v": the attribute is read
AM_Load(th) ==
    /\ adders[th].pc \in {"count", "tokens", "cost"}
    /\ ~adders[th].loaded
    /\ adders' = [adders EXCEPT
                     ![th].reg = objects[adders[th].sid][AdderField(adders[th].pc)],
                     ![th].loaded = TRUE]
    /\ UNCHANGED <<now, sessions, objects, notified, lastcall, collectorvars, handler>>

\* "self.x += v": the sum is written
AM_Store(th) ==
    /\ adders[th].pc \in {"count", "tokens", "cost"}
    /\ adders[th].loaded
    /\ objects' = [objects EXCEPT ![adders[th].sid][AdderField(adders[th].pc)] =
                                      adders[th].reg + AdderOperand(adders[th])]
    /\ adders' = [adders EXCEPT ![th].pc = AdderNextPc(@), ![th].loaded = FALSE]
    /\ UNCHANGED <<now, sessions, notified, lastcall, collectorvars, handler>>

\* self.update_activity(), and add_message returns
AM_UpdateActivity(th) ==
    /\ adders[th].pc = "activity"
    /\ objects' = [objects EXCEPT ![adders[th].sid] = UpdateActivity(@, now)]
    /\ adders' = [adders EXCEPT ![th].pc = "idle", ![th].calls = @ + 1,
                                ![th].sent = @ + adders[th].tokens]
    /\ lastcall' = Call("add_message", adders[th].sid, NULL, NULL)
    /\ UNCHANGED <<now, sessions, notified, collectorvars, handler>>

\* The token counts the threads pass
TokenChoices == {1, 2}

NextMetrics ==
    \/ Tick
    \/ \E tm \in TimeoutChoices, md \in MaxDurationChoices : CreateSession(ChatIdSeq, tm, md)
    \/ \E th \in AdderThreads, sid \in ChatIds, tokens \in TokenChoices :
          AM_Call(th, sid, tokens, 1)
    \/ \E th \in AdderThreads : AM_Load(th)
    \/ \E th \in AdderThreads : AM_Store(th)
    \/ \E th \in AdderThreads : AM_UpdateActivity(th)
    \/ CleanupExpiredSessions

\* One session, two threads adding messages, and the sweep
SpecMetrics == Init /\ [][NextMetrics]_vars

\* ------------------------------------------ VaqueroLangGraphHandler calls
handlerrest == <<now, sessions, notified, lastcall, adders, threads, sdk>>

collectorstate == <<processors, trace_processors, cached_user_id, cached_project_id,
                    last, since, finalized, nfinal>>

\* VaqueroLangGraphHandler(session=...): session is a ChatSession or None
NewHandler(session) ==
    /\ ~handler.created
    /\ session # NULL => objects[session].allocated
    /\ handler' = InitHandler(session)
    /\ UNCHANGED <<objects, handlerrest, collectorstate>>

\* handler.handle_user_message(content)
HandleUserMessage ==
    /\ handler.created
    /\ IF handler.session = NULL
       THEN /\ handler' = LastOp(handler, "other", NULL)
            /\ UNCHANGED <<objects, collectorstate>>
       ELSE /\ handler.session_trace_id = NULL => handler.ntrace < Len(TraceIdSeq)
            /\ objects[handler.session].message_count < MaxMessages
            /\ \E h \in {[EnsureTraceId(handler) EXCEPT !.message_sequence = @ + 1]} :
               \E span_data \in {UserSpan(h, now)} :
                  /\ objects' = [objects EXCEPT ![h.session] =
                                    AddMessage(UpdateActivity(@, now), 0, 0, now)]
                  /\ ProcessSpan(span_data)
                  /\ handler' = LastOp(Emitted(h, "user", span_data, NULL), "other", NULL)
    /\ UNCHANGED handlerrest

\* handler.on_agent_start(serialized, inputs, run_id=...): the run is entered in
\* the table after the parent's callback, inside the same try block
OnAgentStart(run_id, agent_name, parent_raises) ==
    /\ handler.created
    /\ handler' =
          LastOp(IF parent_raises THEN handler
                 ELSE [handler EXCEPT !.active_nodes[run_id] =
                          [active |-> TRUE, agent_name |-> agent_name, start_time |-> now]],
                 "other", NULL)
    /\ UNCHANGED <<objects, handlerrest, collectorstate>>

\* handler.on_agent_end(outputs, run_id=...)
OnAgentEnd(run_id) ==
    /\ handler.created
    /\ IF ~handler.active_nodes[run_id].active
       THEN /\ handler' = LastOp(handler, "on_agent_end", run_id)
            /\ UNCHANGED collectorstate
       ELSE /\ handler.session_trace_id = NULL => handler.ntrace < Len(TraceIdSeq)
            /\ \E h \in {EnsureTraceId(EnsureOrchestrationId(handler))} :
               \E span_data \in {AgentSpan(h, h.active_nodes[run_id], now)} :
                  /\ ProcessSpan(span_data)
                  /\ handler' =
                        LastOp([Emitted(h, "agent", span_data, run_id)
                                   EXCEPT !.active_nodes = ActiveAfterEnd(@, run_id)],
                               "on_agent_end", run_id)
    /\ UNCHANGED <<objects, handlerrest>>

\* handler.on_agent_error(error, run_id=...): as on_agent_end, but
\* _current_orchestration_id is left as it is
OnAgentError(run_id) ==
    /\ handler.created
    /\ IF ~handler.active_nodes[run_id].active
       THEN /\ handler' = LastOp(handler, "on_agent_error", run_id)
            /\ UNCHANGED collectorstate
       ELSE /\ handler.session_trace_id = NULL => handler.ntrace < Len(TraceIdSeq)
            /\ \E h \in {EnsureTraceId(handler)} :
               \E span_data \in {AgentSpan(h, h.active_nodes[run_id], now)} :
                  /\ ProcessSpan(span_data)
                  /\ handler' =
                        LastOp([Emitted(h, "agent", span_data, run_id)
                                   EXCEPT !.active_nodes = ActiveAfterEnd(@, run_id)],
                               "on_agent_error", run_id)
    /\ UNCHANGED <<objects, handlerrest>>

\* The backend answer the handler specification draws
HandlerEnv == [whoami |-> "200", post |-> "2xx"]

\* handler.finalize_langgraph_traces()
FinalizeLangGraphTraces ==
    /\ handler.created
    /\ handler.epoch < MaxFinalize
    /\ IF Truthy(handler.session_trace_id)
       THEN FinalizeTrace(handler.session_trace_id, HandlerEnv)
       ELSE UNCHANGED collectorstate
    /\ handler' = LastOp([handler EXCEPT !.active_nodes = [r \in Runs |-> NoNode],
                                         !.current_orchestration_id = NULL,
                                         !.epoch = @ + 1],
                         "other", NULL)
    /\ UNCHANGED <<objects, handlerrest>>

NextHandler ==
    \/ CreateSession(<<"s1">>, 1, 2)
    \/ \E session \in {NULL, "s1"} : NewHandler(session)
    \/ HandleUserMessage
    \/ \E run_id \in StartedRuns, parent_raises \in BOOLEAN :
          OnAgentStart(run_id, NodeOfRun[run_id], parent_raises)
    \/ \E run_id \in Runs : OnAgentEnd(run_id)
    \/ \E run_id \in Runs : OnAgentError(run_id)
    \/ FinalizeLangGraphTraces

\* One handler, with or without a chat session, on a collector
SpecHandler == Init /\ [][NextHandler]_vars

\* ------------------------------------------------------------------ claims

\* The call that led to this state was finalize_trace for a registered trace and
\* its reconstruction returned a trace
Reconstructed ==
    /\ last.op = "finalize_trace"
    /\ last.fin[1].found
    /\ ~last.fin[1].recon_raised

\* The spans of trace_id tid among the spans the processor named fw holds
OwnSpans(fw, tid) == SelectSeq(processors[fw].spans, LAMBDA s : s.trace_id = tid)

\* C1: trace isolation. The trace finalize_trace(t) reconstructs and dispatches is
\* the one built from the buffered spans whose trace_id is t alone: spans of other
\* trace ids contribute no node, no timing and no totals.
C1_TraceIsolation ==
    Reconstructed =>
        last.fin[1].trace =
            ProcessTrace(last.fin[1].fw,
                         Replay(last.fin[1].fw, NewProcessor,
                                OwnSpans(last.fin[1].fw, last.tid)),
                         last.tid)

\* C2: a finalize of a trace id that was finalized before reconstructs only the
\* spans that arrived after the previous finalize. Stated where the processor
\* holds spans of this trace id only, so that only spans of earlier finalizes of
\* the same id can make the difference.
C2_FreshAfterFinalize ==
    (/\ Reconstructed
     /\ finalized[last.tid] >= 2
     /\ \A s \in Range(processors[last.fin[1].fw].spans) : s.trace_id = last.tid)
    => last.fin[1].trace =
           ProcessTrace(last.fin[1].fw,
                        Replay(last.fin[1].fw, NewProcessor, last.own),
                        last.tid)

\* C3: processor stickiness. A span for a trace id that is in the map runs no
\* framework detection, leaves the map as it is and is appended to the buffer of
\* the processor the map names, whatever detection would answer for the span.
C3_ProcessorStickiness ==
    [][(/\ last'.op = "process_span"
        /\ HasKey(trace_processors, last'.tid))
       => (/\ ~last'.detected
           /\ ~last'.raised
           /\ trace_processors' = trace_processors
           /\ \A fw \in Frameworks :
                 processors'[fw].spans =
                     IF fw = ProcessorOf(trace_processors, last'.tid)
                     THEN Append(processors[fw].spans, last'.span)
                     ELSE processors[fw].spans)]_vars

\* C3 witness: a later span that detection would route elsewhere sits in the
\* buffer of the processor its trace was first given
C3_Witness ==
    /\ last.op = "process_span"
    /\ ~last.detected
    /\ HasKey(trace_processors, last.tid)
    /\ DetectFramework(last.span) # ProcessorOf(trace_processors, last.tid)
    /\ last.span \in Range(processors[ProcessorOf(trace_processors, last.tid)].spans)

\* C4: process_span of a span whose trace_id is absent, None or empty raises
\* nothing and changes neither the map nor any processor.
C4_NoTraceIdIsNoOp ==
    [][(/\ last'.op = "process_span"
        /\ last'.span.trace_id \in {ABSENT, NULL, ""})
       => (/\ ~last'.raised
           /\ UNCHANGED <<trace_processors, processors>>)]_vars

\* C4 witness: such a span was processed while a trace was open
C4_Witness ==
    /\ last.op = "process_span"
    /\ last.span.trace_id = ""
    /\ trace_processors # << >>

\* C5: finalize_trace of an id that is not in the map raises nothing, posts no
\* batch and changes neither the map, nor a processor, nor the identity cache.
C5_FinalizeUnknownIsNoOp ==
    [][(/\ last'.op = "finalize_trace"
        /\ ~HasKey(trace_processors, last'.tid))
       => (/\ ~last'.raised
           /\ last'.fin[1].posts = 0
           /\ ~last'.fin[1].whoami_called
           /\ UNCHANGED <<trace_processors, processors, cached_user_id,
                          cached_project_id>>)]_vars

\* C5 witness: an unknown id was finalized while other traces were open
C5_Witness ==
    /\ last.op = "finalize_trace"
    /\ last.tid = "missing"
    /\ trace_processors # << >>
    /\ Accepted > 0

\* C6: finalize_trace of an id in the map removes exactly that id from the map,
\* whether reconstruction and dispatch succeeded or failed.
C6_FinalizeRemoves ==
    [][(/\ last'.op = "finalize_trace"
        /\ HasKey(trace_processors, last'.tid))
       => (/\ ~HasKey(trace_processors', last'.tid)
           /\ trace_processors' = DictDel(trace_processors, last'.tid))]_vars

\* C6 witness: the reconstruction of the finalized trace raised, and another
\* trace is still open
C6_Witness ==
    /\ last.op = "finalize_trace"
    /\ last.fin[1].found
    /\ last.fin[1].recon_raised
    /\ trace_processors # << >>

\* C7: shutdown() calls finalize_trace once for every trace id that was open, in
\* the order of the map, goes on after a finalize that failed, and leaves the map
\* empty.
C7_ShutdownDrains ==
    [][last'.op = "shutdown"
       => (/\ trace_processors' = << >>
           /\ Len(last'.fin) = Len(trace_processors)
           /\ \A i \in 1..Len(trace_processors) :
                 /\ last'.fin[i].tid = trace_processors[i].key
                 /\ last'.fin[i].found)]_vars

\* C7 witness: the first finalize of a shutdown failed in reconstruction and the
\* next trace was still reconstructed and posted
C7_Witness ==
    /\ last.op = "shutdown"
    /\ Len(last.fin) = 2
    /\ last.fin[1].recon_raised
    /\ ~last.fin[2].recon_raised
    /\ last.fin[2].posts = 1
    /\ trace_processors = << >>

\* C8: shutdown runs once. However the explicit call, the atexit hook and the
\* signal handler overlap, no trace is reconstructed or sent more than once.
C8_ShutdownOnce ==
    \A t \in TraceIds : sdk.reconstructs[t] <= 1 /\ sdk.posts[t] <= 1

\* A producer thread whose process_span returned after adding its span
Added(th) == threads[th].pc = "done" /\ threads[th].into # NoProcessor

\* C9: get-or-create is atomic. When concurrent process_span calls for the same new
\* trace id have returned (no finalize running), every span they added is in the
\* buffer of the one processor the map names for the trace id.
C9_AtomicGetOrCreate ==
    (/\ \A th \in Producers : threads[th].pc = "done"
     /\ threads[Finalizer].pc = "idle")
    => \A th \in Producers :
          Added(th) =>
              /\ HasKey(trace_processors, threads[th].span.trace_id)
              /\ threads[th].span \in
                    Range(processors[ProcessorOf(trace_processors,
                                                 threads[th].span.trace_id)].spans)

\* C10: a span added while finalize_trace of its trace id runs is either among the
\* spans that finalize reconstructed, or in the processor that is registered for
\* the trace id when everything has returned.
C10_NoSpanLostByFinalize ==
    (/\ \A th \in Producers \cup {Finalizer} : threads[th].pc = "done"
     /\ threads[Finalizer].found)
    => \A th \in Producers :
          Added(th) =>
              \/ threads[th].span \in Range(threads[Finalizer].snap)
              \/ /\ HasKey(trace_processors, threads[th].span.trace_id)
                 /\ threads[th].span \in
                       Range(processors[ProcessorOf(trace_processors,
                                                    threads[th].span.trace_id)].spans)

\* ---------------------------------------------------- reconstruction claims

\* The spans buffered in the processor under examination
Buffer == processors["langgraph"].spans

\* The call that led to this state was process_trace and it returned a trace
Processed == last.op = "process_trace" /\ ~last.raised

\* The orchestration bucket of a span: its agent_orchestration_id, or the default
\* bucket when it has none
BucketIdOf(s) ==
    IF s.agent_orchestration_id \notin {NULL, ABSENT, ""}
    THEN s.agent_orchestration_id ELSE "default"

Buckets(spans) == {BucketIdOf(spans[i]) : i \in 1..Len(spans)}

\* The entries of a node list that are at the given level
AtLevel(nodes, level) == SelectSeq(nodes, LAMBDA n : n.level = level)

NodeNames(nodes) == {nodes[i].name : i \in 1..Len(nodes)}

\* Tokens and cost of a list of spans, a missing field counting as zero
RECURSIVE OwnTokens(_)
OwnTokens(spans) ==
    IF spans = << >> THEN 0
    ELSE (IF Head(spans).input_tokens = AbsentNum THEN 0 ELSE Head(spans).input_tokens[1])
         + (IF Head(spans).output_tokens = AbsentNum THEN 0 ELSE Head(spans).output_tokens[1])
         + OwnTokens(Tail(spans))

RECURSIVE OwnCost(_)
OwnCost(spans) ==
    IF spans = << >> THEN 0
    ELSE (IF Head(spans).cost = AbsentNum THEN 0 ELSE Head(spans).cost[1])
         + OwnCost(Tail(spans))

\* C11: in a trace whose spans all carry the same chat_session_id there is one
\* level-1 session node, it has one level-2 child per orchestration bucket of the
\* spans (each agent_orchestration_id, and the default bucket if a span has no
\* id), and each child holds the agents of the spans of its own bucket.
C11_OneChildPerBucket ==
    (/\ Processed
     /\ Buffer # << >>
     /\ \A s \in Range(Buffer) : s.chat_session_id = "c1")
    => LET roots == AtLevel(last.fin[1].trace.agents, 1)
       IN  /\ Len(roots) = 1
           /\ Len(roots[1].agents) = Cardinality(Buckets(Buffer))
           /\ \A g \in Buckets(Buffer) :
                 \E i \in 1..Len(roots[1].agents) :
                     /\ roots[1].agents[i].level = 2
                     /\ roots[1].agents[i].name = OrchestrationName(g)
                     /\ NodeNames(roots[1].agents[i].agents) =
                           {s.agent_name : s \in {x \in Range(Buffer) :
                                                      /\ BucketIdOf(x) = g
                                                      /\ x.component_type = "agent"}}

\* C12: in a session trace, total_tokens and total_cost of every level-3 agent
\* node are the sums over the buffered spans of that agent_name in the bucket of
\* the node's parent, a missing field counting as zero; no other span is counted.
C12_AgentTotals ==
    (/\ Processed
     /\ last.fin[1].trace.metadata.chat_session_id \notin {NULL, ABSENT, ""})
    => \A o \in Range(AtLevel(last.fin[1].trace.agents, 2)) :
       \A n \in Range(o.agents) :
          LET own == SelectSeq(Buffer,
                               LAMBDA s : /\ s.agent_name = n.name
                                          /\ OrchestrationName(BucketIdOf(s)) = o.name)
          IN  /\ n.level = 3
              /\ n.total_tokens = <<OwnTokens(own)>>
              /\ n.total_cost = <<OwnCost(own)>>

\* C12 witness: a level-3 agent with two spans, one of them without token and cost
\* fields, reconstructed next to spans of another agent or component
C12_Witness ==
    /\ Processed
    /\ Len(Buffer) = 3
    /\ \E s \in Range(Buffer) : s.agent_name # "a"
    /\ \E o \in Range(AtLevel(last.fin[1].trace.agents, 2)) :
       \E n \in Range(o.agents) :
          /\ n.name = "a"
          /\ n.total_tokens = <<4>>
          /\ n.total_cost = <<1>>
          /\ \E s \in Range(Buffer) : s.agent_name = "a" /\ s.input_tokens = AbsentNum

\* C13: without a chat session the reconstruction is flat: one level-1 node per
\* distinct agent_name among the buffered spans, also for spans that carry an
\* agent_orchestration_id, each without parent and without children.
C13_FlatWithoutSession ==
    (/\ Processed
     /\ \A s \in Range(Buffer) : s.chat_session_id \in {NULL, ABSENT, ""})
    => LET nodes == last.fin[1].trace.agents
       IN  /\ \A n \in Range(nodes) :
                 n.level = 1 /\ n.parent_agent_id = NULL /\ n.agents = << >>
           /\ NodeNames(nodes) = {s.agent_name : s \in Range(Buffer)}
           /\ Len(nodes) = Cardinality({s.agent_name : s \in Range(Buffer)})

\* C14: in a session trace every llm, tool, chain or prompt span whose
\* parent_agent_id names a level-3 agent node is a level-4 child of that node.
C14_ComponentsNested ==
    (/\ Processed
     /\ last.fin[1].trace.metadata.chat_session_id \notin {NULL, ABSENT, ""})
    => \A s \in Range(Buffer) :
          s.component_type \in {"llm", "tool", "chain", "prompt"}
          => \A o \in Range(AtLevel(last.fin[1].trace.agents, 2)) :
             \A n \in Range(o.agents) :
                n.name = s.parent_agent_id
                => \E c \in Range(n.agents) : c.name = s.agent_name /\ c.level = 4

\* ------------------------------------------------------ chat session claims

\* Idle time and total duration of a session at the current clock
IdleTime(sid) == now - objects[sid].last_activity
Duration(sid) == now - objects[sid].start_time

\* C15: should_end_session returns true exactly when the idle time is greater
\* than timeout_minutes or the duration is greater than max_duration_minutes;
\* at the limit itself it returns false. The message count plays no part.
C15_ShouldEndIffOverLimit ==
    [][lastcall'.op = "should_end_session"
       => lastcall'.result =
             (\/ IdleTime(lastcall'.sid) > objects[lastcall'.sid].timeout_minutes
              \/ Duration(lastcall'.sid) > objects[lastcall'.sid].max_duration_minutes)]_vars

\* C15 witness: a session with a message, idle for exactly timeout_minutes, was
\* asked and the answer was false
C15_Witness ==
    /\ lastcall.op = "should_end_session"
    /\ lastcall.result = FALSE
    /\ objects[lastcall.sid].message_count > 0
    /\ IdleTime(lastcall.sid) = objects[lastcall.sid].timeout_minutes

\* C16: a registered timeout callback is called once for a session's timeout or
\* max-duration transition, never a second time.
C16_CallbackOnce ==
    \A sid \in SessionIds, cb \in Callbacks : notified[sid][cb] <= 1

\* C17: cleanup_expired_sessions removes exactly the tracked sessions whose idle
\* time or duration is over its limit, returns how many it removed, and leaves
\* the other tracked sessions in the map, in order, with every field unchanged.
C17_CleanupRemovesExpired ==
    [][lastcall'.op = "cleanup_expired_sessions"
       => LET over == {sid \in Range(sessions) :
                          \/ IdleTime(sid) > objects[sid].timeout_minutes
                          \/ Duration(sid) > objects[sid].max_duration_minutes}
          IN  /\ sessions' = SelectSeq(sessions, LAMBDA sid : sid \notin over)
              /\ lastcall'.result = Cardinality(over)
              /\ \A sid \in SessionIds \ over : objects'[sid] = objects[sid]]_vars

\* C17 witness: a sweep removed one session and kept another, which has a message
C17_Witness ==
    /\ lastcall.op = "cleanup_expired_sessions"
    /\ lastcall.result = 1
    /\ Len(sessions) = 1
    /\ objects[sessions[1]].message_count > 0
    /\ objects[sessions[1]].status = "active"
    /\ \E sid \in SessionIds \ Range(sessions) : objects[sid].status = "timeout"

\* C18: a session the sweep removes ends with status timeout when its idle time
\* was over the limit, and with status ended when only its duration was.
C18_StatusByCause ==
    [][lastcall'.op = "cleanup_expired_sessions"
       => \A sid \in Range(sessions) \ Range(sessions') :
             objects'[sid].status =
                 IF IdleTime(sid) > objects[sid].timeout_minutes THEN "timeout"
                 ELSE "ended"]_vars

\* C19: a session whose status is not active never becomes active again.
C19_StatusMonotone ==
    [][\A sid \in SessionIds :
          (objects[sid].allocated /\ objects[sid].status # "active")
          => objects'[sid].status # "active"]_vars

\* C20: the status of every session is one of active, timeout, ended, cancelled.
C20_StatusInEnum ==
    \A sid \in SessionIds :
        objects[sid].allocated
        => objects[sid].status \in {"active", "timeout", "ended", "cancelled"}

\* C21: end_session on a session that is already not active leaves its status
\* and its end_time as they were.
C21_EndSessionIdempotent ==
    [][(/\ \/ lastcall'.op = "end_session"
           \/ lastcall'.op = "manager.end_session" /\ lastcall'.result
        /\ objects[lastcall'.sid].status # "active")
       => /\ objects'[lastcall'.sid].status = objects[lastcall'.sid].status
          /\ objects'[lastcall'.sid].end_time = objects[lastcall'.sid].end_time]_vars

\* C22: the sweep removes from the manager every tracked session that is not
\* active when the sweep is called, whether or not a limit of it is exceeded.
C22_SweepRemovesNonActive ==
    [][lastcall'.op = "cleanup_expired_sessions"
       => \A sid \in Range(sessions) :
             objects[sid].status # "active" => sid \notin Range(sessions')]_vars

\* C23: a session leaves the manager's map through cleanup_expired_sessions
\* only: every other call keeps every tracked session in the map, and get_session
\* of a tracked id returns that session, also after end_session was called on it.
C23_RemovedOnlyBySweep ==
    [][/\ lastcall'.op # "cleanup_expired_sessions"
          => \A sid \in Range(sessions) : sid \in Range(sessions')
       /\ (lastcall'.op = "get_session" /\ lastcall'.sid \in Range(sessions))
          => lastcall'.result = lastcall'.sid]_vars

\* C23 witness: get_session returned a session that end_session had cancelled
C23_Witness ==
    /\ lastcall.op = "get_session"
    /\ lastcall.result = lastcall.sid
    /\ lastcall.sid \in SessionIds
    /\ objects[lastcall.sid].status = "cancelled"
    /\ ~IsNone(objects[lastcall.sid].end_time)

\* C24: no increment of add_message is lost: when no add_message call is in
\* progress, the message_count of a session is the number of add_message calls
\* made on it and its total_tokens is the sum of their token arguments.
C24_NoLostIncrement ==
    (\A th \in AdderThreads : adders[th].pc = "idle")
    => \A sid \in ChatIds :
          objects[sid].allocated
          => LET mine == {th \in AdderThreads : adders[th].sid = sid}
                 done == [th \in AdderThreads |-> IF th \in mine THEN adders[th].calls ELSE 0]
                 sent == [th \in AdderThreads |-> IF th \in mine THEN adders[th].sent ELSE 0]
             IN  /\ objects[sid].message_count = done["m1"] + done["m2"]
                 /\ objects[sid].total_tokens = sent["m1"] + sent["m2"]

\* The tracked sessions with a limit exceeded at the current clock
OverLimit ==
    {sid \in Range(sessions) :
        \/ IdleTime(sid) > objects[sid].timeout_minutes
        \/ Duration(sid) > objects[sid].max_duration_minutes}

\* C25: a timeout callback that raises is isolated: should_end_session on a
\* session over a limit returns true and has called every registered callback
\* of the session, the raising one and the others; cleanup_expired_sessions
\* returns the number of all sessions over a limit, has removed every one of
\* them and has called every registered callback of each.
C25_CallbackFailureIsolated ==
    [][/\ (lastcall'.op = "should_end_session" /\ lastcall'.sid \in OverLimit)
          => /\ ~lastcall'.raised
             /\ lastcall'.result = TRUE
             /\ \A cb \in Range(objects[lastcall'.sid].timeout_callbacks) :
                   notified'[lastcall'.sid][cb] = notified[lastcall'.sid][cb] + 1
       /\ lastcall'.op = "cleanup_expired_sessions"
          => /\ ~lastcall'.raised
             /\ lastcall'.result = Cardinality(OverLimit)
             /\ Range(sessions') = Range(sessions) \ OverLimit
             /\ \A sid \in OverLimit : \A cb \in Range(objects[sid].timeout_callbacks) :
                   notified'[sid][cb] = notified[sid][cb] + 1]_vars

\* C25 witness: a sweep removed two sessions; the first one's callbacks are the
\* raising one and then cb1, and both were called
C25_Witness ==
    /\ lastcall.op = "cleanup_expired_sessions"
    /\ ~lastcall.raised
    /\ lastcall.result = 2
    /\ sessions = << >>
    /\ objects["s1"].timeout_callbacks = <<"cb_raises", "cb1">>
    /\ notified["s1"]["cb_raises"] = 1
    /\ notified["s1"]["cb1"] = 1
    /\ objects["s2"].status = "timeout"

\* ------------------------------------------------------ collector failures

\* C26: a reconstruction failure stays with its trace: when finalize_trace of one
\* trace has failed in the reconstruction, the following finalize_trace of another
\* registered trace, all of whose own spans have a name, token counts and a cost,
\* reconstructs that trace and posts its batch.
C26_FailureIsolatedPerTrace ==
    [][(/\ last.op = "finalize_trace"
        /\ last.fin[1].found
        /\ last.fin[1].recon_raised
        /\ last'.op = "finalize_trace"
        /\ last'.tid # last.tid
        /\ last'.fin[1].found
        /\ ~SumsRaise(last'.own)
        /\ \A i \in 1..Len(last'.own) : last'.own[i].agent_name # NULL)
       => /\ ~last'.fin[1].recon_raised
          /\ last'.fin[1].posts = 1]_vars

\* C27: process_span of a span that has a trace_id, and finalize_trace, return
\* without raising, whichever optional fields of the span are absent or None.
C27_NeverRaisesToProducer ==
    last.op \in {"process_span", "finalize_trace"} => ~last.raised

\* ------------------------------------------------------- dispatch claims

\* The call that led to this state was a finalize_trace that posted a batch
Dispatched ==
    /\ last.op = "finalize_trace"
    /\ last.fin[1].found
    /\ ~last.fin[1].recon_raised
    /\ last.fin[1].posts > 0

\* The nodes of a reconstructed tree at every depth
RECURSIVE TreeNodes(_)
TreeNodes(nodes) ==
    IF nodes = << >> THEN {}
    ELSE {Head(nodes)} \cup TreeNodes(Head(nodes).agents) \cup TreeNodes(Tail(nodes))

\* C28: the batch of a finalized trace has one trace summary and, for every node
\* of the reconstructed tree at every depth, exactly one agent entry with the
\* node's name, level, parent_agent_id and component_type.
C28_BatchHasEveryNode ==
    Dispatched
    => LET ht == last.fin[1].trace
           batch == BatchOf(ht)
       IN  /\ Len(batch.traces) = 1
           /\ \A n \in TreeNodes(ht.agents) :
                 Cardinality({i \in 1..Len(batch.agents) :
                                 /\ batch.agents[i].name = n.name
                                 /\ batch.agents[i].level = n.level
                                 /\ batch.agents[i].parent_agent_id = n.parent_agent_id
                                 /\ batch.agents[i].component_type = n.component_type}) = 1

\* C29: once a whoami call has been answered with status 200 (the project id is
\* cached from then on), no finalize_trace calls whoami again, and every batch is
\* sent with the cached user id and project id.
C29_IdentityResolvedOnce ==
    [][(/\ cached_project_id # NULL
        /\ last'.op = "finalize_trace"
        /\ last'.fin[1].found
        /\ last'.fin[1].posts > 0)
       => /\ ~last'.fin[1].whoami_called
          /\ last'.fin[1].headers.user_id = cached_user_id
          /\ last'.fin[1].headers.project_id = cached_project_id]_vars

\* C30: a finalize_trace of a registered trace makes at most one POST; when the
\* POST is answered with a non-success status or fails in transport there is that
\* one attempt only, nothing is raised and the trace is removed from the map.
C30_NoRetry ==
    (last.op = "finalize_trace" /\ last.fin[1].found)
    => /\ last.fin[1].posts <= 1
       /\ ~last.raised
       /\ ~HasKey(trace_processors, last.tid)
       /\ last.fin[1].post_result \in {"non-2xx", "exception"} => last.fin[1].posts = 1

\* C30 witness: a batch was posted once, the POST failed in transport, and the
\* trace is not in the map any more
C30_Witness ==
    /\ Dispatched
    /\ last.fin[1].post_result = "exception"
    /\ last.fin[1].posts = 1
    /\ ~last.raised
    /\ ~HasKey(trace_processors, last.tid)

\* -------------------------------------------- session linkage and counts

\* The value of field f in the first span of spans where it is truthy, else None
RECURSIVE FirstTruthy(_, _)
FirstTruthy(spans, f) ==
    IF spans = << >> THEN NULL
    ELSE IF Truthy(Head(spans)[f]) THEN Head(spans)[f]
    ELSE FirstTruthy(Tail(spans), f)

\* C31: the session_id of a reconstructed trace is the session_id of the first
\* buffered span that has one, and its chat_session_id is the chat_session_id of
\* the first buffered span that has one, each independently of the other.
C31_FirstSessionIds ==
    Processed
    => /\ last.fin[1].trace.metadata.session_id = FirstTruthy(Buffer, "session_id")
       /\ last.fin[1].trace.metadata.chat_session_id = FirstTruthy(Buffer, "chat_session_id")

\* C32: framework detection is total and depends on the first span of a trace
\* only: the call does not raise; a span with a langgraph: name prefix, with
\* framework langgraph or with a chat_session_id is routed to the LangGraph
\* processor, and a span with none of the three to the default processor.
C32_DetectionTotal ==
    (last.op = "process_span" /\ SpanHasTraceId(last.span) /\ last.detected)
    => /\ ~last.raised
       /\ LET listed == \/ HasLangGraphPrefix(GetD(last.span.agent_name, ""))
                        \/ Get(last.span.framework) = "langgraph"
                        \/ Get(last.span.chat_session_id) # NULL
          IN  ProcessorOf(trace_processors, last.tid) =
                 IF listed THEN "langgraph" ELSE "langchain"

\* The reconstruction returned a session trace
SessionTrace ==
    /\ Processed
    /\ Truthy(last.fin[1].trace.metadata.chat_session_id)

\* C33: in the node list of a session trace every parent precedes its descendants:
\* the first element is the level-1 session node, every other element is a level-2
\* node whose parent_agent_id names the session node, every level-3 node names
\* exactly one level-2 node of the list as its parent, and every parent_agent_id
\* in the tree resolves to exactly one node.
C33_ParentsPrecede ==
    SessionTrace
    => LET nodes == last.fin[1].trace.agents
           all == TreeNodes(nodes)
       IN  /\ nodes[1].level = 1
           /\ nodes[1].parent_agent_id = NULL
           /\ \A i \in 2..Len(nodes) :
                 /\ nodes[i].level = 2
                 /\ nodes[i].parent_agent_id = nodes[1].name
                 /\ \A k \in 1..Len(nodes[i].agents) :
                       /\ nodes[i].agents[k].level = 3
                       /\ Cardinality({j \in 2..Len(nodes) :
                              nodes[j].name = nodes[i].agents[k].parent_agent_id}) = 1
                       /\ nodes[i].agents[k].parent_agent_id = nodes[i].name
           /\ \A n \in all :
                 n.parent_agent_id # NULL
                 => Cardinality({m \in all : m.name = n.parent_agent_id}) = 1

\* C33 witness: a session trace whose level-2 node has two level-3 agents
C33_Witness ==
    /\ SessionTrace
    /\ \E i \in 2..Len(last.fin[1].trace.agents) :
          Len(last.fin[1].trace.agents[i].agents) >= 2

\* C34: the metadata of a reconstructed trace gives the counts of that trace:
\* agent_count is the length of the node list and orchestration_count is the
\* number of level-2 orchestration nodes of the trace.
C34_MetadataCounts ==
    Processed
    => LET ht == last.fin[1].trace
       IN  /\ ht.metadata.agent_count = Len(ht.agents)
           /\ ht.metadata.orchestration_count = Len(AtLevel(ht.agents, 2))

\* C35: the duration of every agent node is the truncated number of milliseconds
\* between its start_time and its end_time, and the agent entry of the batch for
\* the node carries that duration as duration_ms and the node's total_cost as cost.
C35_DurationAndCostDispatched ==
    Dispatched
    => LET ht == last.fin[1].trace
           batch == BatchOf(ht)
       IN  \A i \in 1..Len(ht.agents) :
              ht.agents[i].component_type = "agent"
              => /\ (~IsNone(ht.agents[i].start_time) /\ ~IsNone(ht.agents[i].end_time))
                    => ht.agents[i].duration =
                          Num(TruncMs(Val(ht.agents[i].end_time) - Val(ht.agents[i].start_time)))
                 /\ \E k \in 1..Len(batch.agents) :
                       /\ batch.agents[k].name = ht.agents[i].name
                       /\ batch.agents[k].duration_ms = Val(ht.agents[i].duration)
                       /\ batch.agents[k].cost = Val(ht.agents[i].total_cost)

\* C40: in a session trace, a parent node that has time stamps starts no later and
\* ends no earlier than each of its children that has them, and the session node
\* runs from the minimum start_time to the maximum end_time of the buffered spans.
C40_TimingContainment ==
    SessionTrace
    => LET nodes == last.fin[1].trace.agents
           starts == {Val(s.start_time) : s \in {x \in Range(Buffer) : ~IsNone(x.start_time)}}
           ends == {Val(s.end_time) : s \in {x \in Range(Buffer) : ~IsNone(x.end_time)}}
       IN  /\ \A n \in TreeNodes(nodes) : \A k \in 1..Len(n.agents) :
                 /\ (~IsNone(n.start_time) /\ ~IsNone(n.agents[k].start_time))
                    => Val(n.start_time) <= Val(n.agents[k].start_time)
                 /\ (~IsNone(n.end_time) /\ ~IsNone(n.agents[k].end_time))
                    => Val(n.end_time) >= Val(n.agents[k].end_time)
           /\ starts # {}
              => /\ Val(nodes[1].start_time) \in starts
                 /\ \A x \in starts : Val(nodes[1].start_time) <= x
           /\ ends # {}
              => /\ Val(nodes[1].end_time) \in ends
                 /\ \A x \in ends : Val(nodes[1].end_time) >= x

\* C40 witness: a session trace in which an agent has two spans, the later one
\* buffered first, and another node starts earlier still
C40_Witness ==
    /\ SessionTrace
    /\ Len(Buffer) = 3
    /\ Val(Buffer[1].start_time) > Val(last.fin[1].trace.agents[1].start_time)
    /\ \E o \in Range(AtLevel(last.fin[1].trace.agents, 2)) :
       \E n \in Range(o.agents) :
          /\ Val(n.start_time) > Val(last.fin[1].trace.agents[1].start_time)
          /\ Val(n.start_time) < Val(Buffer[1].start_time)
          /\ Val(n.end_time) < Val(last.fin[1].trace.agents[1].end_time)

\* C39: end_trace leaves the collector as finalize_trace does: it raises nothing,
\* a trace that had a processor is absent from the map when it returns, also
\* when the reconstruction raised, and an unknown trace changes nothing.
C39_EndTraceCleansUp ==
    [][last'.op = "end_trace"
       => /\ ~last'.raised
          /\ trace_processors' =
                FinalizeCall(processors,
                             [tp |-> trace_processors, cu |-> cached_user_id,
                              cp |-> cached_project_id, fin |-> << >>],
                             last'.tid, [whoami |-> "200", post |-> "2xx"]).tp
          /\ last'.fin[1].found => ~HasKey(trace_processors', last'.tid)
          /\ ~last'.fin[1].found => trace_processors' = trace_processors]_vars

\* ---------------------------------------------------------- handler claims
\* The agent spans the handler has emitted
AgentSpansEmitted == SelectSeq(handler.emitted, LAMBDA e : e.kind = "agent")

\* C36: with a chat session attached, every agent span the handler emits carries
\* a non-null agent_orchestration_id, the agent spans between two consecutive
\* finalize_langgraph_traces calls carry the same id, and agent spans separated
\* by a finalize carry different ids.
C36_OrchestrationIdPerRound ==
    handler.session # NULL
    => \A i \in 1..Len(AgentSpansEmitted) :
          /\ Truthy(AgentSpansEmitted[i].agent_orchestration_id)
          /\ \A j \in 1..Len(AgentSpansEmitted) :
                (AgentSpansEmitted[i].epoch = AgentSpansEmitted[j].epoch)
                <=> (AgentSpansEmitted[i].agent_orchestration_id =
                        AgentSpansEmitted[j].agent_orchestration_id)

\* C37: every span one handler emits, user-message span or agent span, carries
\* the same trace_id: the session trace id is set once, no call changes it, not
\* finalize_langgraph_traces either, and spans emitted after a finalize carry the
\* trace_id that was finalized.
C37_OneTraceId ==
    [][/\ handler.session_trace_id # NULL
          => handler'.session_trace_id = handler.session_trace_id
       /\ \A i \in 1..Len(handler'.emitted) :
             handler'.emitted[i].trace_id = handler'.session_trace_id]_vars

\* C37 witness: a user-message span before a finalize that found the trace, and
\* an agent span with the same trace_id after it
C37_Witness ==
    /\ finalized["t1"] >= 1
    /\ \E i, j \in 1..Len(handler.emitted) :
          /\ handler.emitted[i].kind = "user"
          /\ handler.emitted[i].epoch = 0
          /\ handler.emitted[j].kind = "agent"
          /\ handler.emitted[j].epoch >= 1
          /\ handler.emitted[j].trace_id = "t1"
          /\ handler.emitted[i].trace_id = "t1"

====
